---- MODULE Spec2Model ----
(***************************************************************************)
(* QuantaTerm: model of the terminal grid (crates/blocks/src/lib.rs).      *)
(* The TerminalGrid struct is the record held by `grid`; every method is a *)
(* pure operator from a grid (and its arguments) to the grid it leaves     *)
(* behind.  Indices are 0-based as in the source; TLA+ sequences are       *)
(* 1-based, so index i of a Vec/VecDeque is element i + 1 of the sequence. *)
(***************************************************************************)
EXTENDS Integers, Sequences, FiniteSets, TLC

VARIABLES grid, panicked, last_op, script, pty, host, registry, atlas, term

vars == <<grid, panicked, last_op, script, pty, host, registry, atlas, term>>
(* the variables of the other subsystems, which no grid method touches *)
others == <<pty, host, registry, atlas, term>>
(* the variables that neither the grid, the PTY session nor the plugin host touches *)
rest == <<registry, atlas, term>>

(* ---------------- bounds of the model ---------------- *)
MaxCols == 3
MaxRows == 2
MaxScrollback == 1
MaxInk == 2

(* ---------------- constants of the program and of its tests ---------------- *)
DefaultScrollback == 10000
ScriptCols == 5
ScriptRows == 3

(* ---------------- small helpers ---------------- *)
Min(a, b) == IF a <= b THEN a ELSE b
Max(a, b) == IF a >= b THEN a ELSE b
U16 == 65536
saturating_sub(a, b) == IF a >= b THEN a - b ELSE 0
(* Option<T>: None is the empty sequence, Some(x) the one-element sequence *)
None == <<>>
Some(x) == <<x>>

(* ---------------- Color, CellAttrs, Cell ---------------- *)
Color_rgb(r, g, b) == <<r, g, b, 255>>
BLACK == <<0, 0, 0, 255>>
WHITE == <<255, 255, 255, 255>>
DEFAULT_FG == WHITE
DEFAULT_BG == BLACK
BOLD == 1
CellAttrs_empty == 0
SPACE == 32

Cell_with_style(glyph_id, fg_color, bg_color, attrs) ==
    [glyph_id |-> glyph_id, fg_color |-> fg_color, bg_color |-> bg_color, attrs |-> attrs]
Cell_new(glyph_id) == Cell_with_style(glyph_id, DEFAULT_FG, DEFAULT_BG, CellAttrs_empty)
Cell_empty == Cell_new(SPACE)
Cell_is_empty(cell) ==
    /\ cell.glyph_id = SPACE
    /\ cell.fg_color = DEFAULT_FG
    /\ cell.bg_color = DEFAULT_BG
    /\ cell.attrs = CellAttrs_empty

vec_truncate_tail(row, n) == SubSeq(row, Len(row) - (IF n <= Len(row) THEN n ELSE Len(row)) + 1, Len(row))
(* Vec::resize(n, fill), Vec::truncate(n), vec![fill; n] *)
vec_resize(row, n, fill) == [i \in 1..n |-> IF i <= Len(row) THEN row[i] ELSE fill]
vec_truncate(row, n) == SubSeq(row, 1, Min(n, Len(row)))
empty_row(n) == [i \in 1..n |-> Cell_empty]

(* ---------------- Position, Selection ---------------- *)
Position_new(col, row) == [col |-> col, row |-> row]
Position_le(a, b) == a.row < b.row \/ (a.row = b.row /\ a.col <= b.col)
(* Selection::new that keeps the order it is given *)
Selection_new_unordered(start, end) == [start |-> start, end |-> end]
Selection_new(start, end) ==
    IF Position_le(start, end) THEN [start |-> start, end |-> end]
    ELSE [start |-> end, end |-> start]

(* ---------------- TerminalGrid ---------------- *)
with_scrollback(cols, rows, max_scrollback) ==
    [cols |-> cols, rows |-> rows,
     scrollback |-> [i \in 1..rows |-> empty_row(cols)],
     viewport_offset |-> 0,
     max_scrollback |-> max_scrollback,
     cursor_pos |-> <<0, 0>>,
     current_fg |-> DEFAULT_FG, current_bg |-> DEFAULT_BG,
     current_attrs |-> CellAttrs_empty,
     selection |-> None]

(* variants of the code with one plausible slip each, used to test the checks *)
limit_scrollback_keeps_one_more(g) ==
    LET target_size == g.max_scrollback + g.rows + 1
        removed_count == saturating_sub(Len(g.scrollback), target_size)
    IN [g EXCEPT !.scrollback = SubSeq(g.scrollback, removed_count + 1, Len(g.scrollback))]
limit_scrollback_pops_once(g) ==
    LET target_size == g.max_scrollback + g.rows
        removed_count == Min(1, saturating_sub(Len(g.scrollback), target_size))
    IN [g EXCEPT !.scrollback = SubSeq(g.scrollback, removed_count + 1, Len(g.scrollback))]
limit_scrollback(g) ==
    LET target_size == g.max_scrollback + g.rows
        removed_count == saturating_sub(Len(g.scrollback), target_size)
    IN [g EXCEPT !.scrollback = SubSeq(g.scrollback, removed_count + 1, Len(g.scrollback))]

(* any cell at index >= new_cols is non-empty *)
content_beyond_width(row, new_cols) ==
    \E i \in (new_cols + 1)..Len(row) : ~Cell_is_empty(row[i])

last_non_empty_index(row) ==
    LET S == {i \in 1..Len(row) : ~Cell_is_empty(row[i])}
    IN IF S = {} THEN 0 ELSE (CHOOSE i \in S : \A j \in S : j <= i) - 1
(* rposition(|cell| !cell.is_empty()).map(|i| i + 1).unwrap_or(0) *)
last_non_empty(row) ==
    LET S == {i \in 1..Len(row) : ~Cell_is_empty(row[i])}
    IN IF S = {} THEN 0 ELSE CHOOSE i \in S : \A j \in S : j <= i

(* the while loop of rewrap_lines: flow content into rows of new_cols cells *)
RECURSIVE flow_content(_, _)
flow_content(content, new_cols) ==
    IF content = <<>> THEN <<>>
    ELSE LET take_count == Min(new_cols, Len(content))
         IN <<vec_resize(SubSeq(content, 1, take_count), new_cols, Cell_empty)>>
            \o flow_content(SubSeq(content, take_count + 1, Len(content)), new_cols)

rewrap_row(row, new_cols) ==
    IF ~content_beyond_width(row, new_cols)
    THEN <<vec_truncate(row, new_cols)>>
    ELSE flow_content(SubSeq(row, 1, last_non_empty(row)), new_cols)

RECURSIVE rewrap_rows(_, _)
rewrap_rows(rows, new_cols) ==
    IF rows = <<>> THEN <<>>
    ELSE rewrap_row(Head(rows), new_cols) \o rewrap_rows(Tail(rows), new_cols)

(* self.cols and self.rows already hold the new dimensions when this runs *)
rewrap_lines(g, old_cols, new_cols) ==
    IF new_cols >= old_cols THEN g
    ELSE LET new_rows == rewrap_rows(g.scrollback, new_cols)
             padded == IF Len(new_rows) < g.rows
                       THEN new_rows \o [i \in 1..(g.rows - Len(new_rows)) |-> empty_row(new_cols)]
                       ELSE new_rows
         IN [g EXCEPT !.scrollback = padded]

needs_rewrapping(g, new_cols) ==
    \E i \in 1..Len(g.scrollback) : content_beyond_width(g.scrollback[i], new_cols)

resize_columns_truncating(g0, old_cols, new_cols) ==
    IF new_cols = old_cols THEN g0
    ELSE IF new_cols > old_cols
    THEN [g0 EXCEPT !.scrollback =
              [i \in 1..Len(g0.scrollback) |-> vec_resize(g0.scrollback[i], new_cols, Cell_empty)]]
    ELSE [g0 EXCEPT !.scrollback =
              [i \in 1..Len(g0.scrollback) |-> vec_truncate(g0.scrollback[i], new_cols)]]
resize_columns(g0, old_cols, new_cols) ==
    IF new_cols = old_cols THEN g0
    ELSE IF new_cols > old_cols
    THEN [g0 EXCEPT !.scrollback =
              [i \in 1..Len(g0.scrollback) |-> vec_resize(g0.scrollback[i], new_cols, Cell_empty)]]
    ELSE IF needs_rewrapping(g0, new_cols)
    THEN rewrap_lines(g0, old_cols, new_cols)
    ELSE [g0 EXCEPT !.scrollback =
              [i \in 1..Len(g0.scrollback) |-> vec_truncate(g0.scrollback[i], new_cols)]]

resize_rows(g1, old_rows, new_rows, new_cols) ==
    IF new_rows > old_rows
    THEN [g1 EXCEPT !.scrollback =
              g1.scrollback \o [i \in 1..(new_rows - old_rows) |-> empty_row(new_cols)]]
    ELSE IF new_rows < old_rows
    THEN LET n == Len(g1.scrollback)
             popped == Min(old_rows - new_rows, saturating_sub(n, new_rows))
         IN [g1 EXCEPT !.scrollback = SubSeq(g1.scrollback, 1, n - popped)]
    ELSE g1

resize(g, new_cols, new_rows) ==
    LET old_cols == g.cols
        old_rows == g.rows
        g0 == [g EXCEPT !.cols = new_cols, !.rows = new_rows]
        g1 == resize_columns(g0, old_cols, new_cols)
        g2 == resize_rows(g1, old_rows, new_rows, new_cols)
        g3 == limit_scrollback(g2)
    IN [g3 EXCEPT !.cursor_pos =
            <<Min(g3.cursor_pos[1], saturating_sub(new_cols, 1)),
              Min(g3.cursor_pos[2], saturating_sub(new_rows, 1))>>]

viewport_row_to_scrollback_index(g, viewport_row) ==
    LET total_rows == Len(g.scrollback)
    IN IF total_rows < g.rows THEN Some(viewport_row)
       ELSE LET visible_start ==
                    saturating_sub(saturating_sub(total_rows, g.rows), g.viewport_offset)
                scrollback_index == visible_start + viewport_row
            IN IF scrollback_index < total_rows THEN Some(scrollback_index) ELSE None

set_cell_ok(g, col, row) ==
    /\ col < g.cols
    /\ row < g.rows
    /\ LET idx == viewport_row_to_scrollback_index(g, row)
       IN /\ idx # None
          /\ idx[1] < Len(g.scrollback)
          /\ col < Len(g.scrollback[idx[1] + 1])

set_cell(g, col, row, cell) ==
    IF set_cell_ok(g, col, row)
    THEN LET idx == viewport_row_to_scrollback_index(g, row)
         IN [g EXCEPT !.scrollback[idx[1] + 1][col + 1] = cell]
    ELSE g

get_cell(g, col, row) ==
    IF set_cell_ok(g, col, row)
    THEN Some(g.scrollback[viewport_row_to_scrollback_index(g, row)[1] + 1][col + 1])
    ELSE None

(* ---------------- viewport navigation ---------------- *)
scroll_up_unclamped(g, lines) ==
    IF lines = 0 THEN g
    ELSE [g EXCEPT !.viewport_offset = g.viewport_offset + lines]
scroll_up(g, lines) ==
    IF lines = 0 THEN g
    ELSE LET max_offset == saturating_sub(Len(g.scrollback), g.rows)
         IN [g EXCEPT !.viewport_offset = Min(g.viewport_offset + lines, max_offset)]

scroll_down_unsaturated(g, lines) ==
    IF lines = 0 THEN g
    ELSE [g EXCEPT !.viewport_offset = g.viewport_offset - lines]
scroll_down(g, lines) ==
    IF lines = 0 THEN g
    ELSE [g EXCEPT !.viewport_offset = saturating_sub(g.viewport_offset, lines)]

page_up(g) == scroll_up(g, g.rows)
page_down(g) == scroll_down(g, g.rows)

scroll_to_top(g) ==
    [g EXCEPT !.viewport_offset = saturating_sub(Len(g.scrollback), g.rows)]

reset_viewport(g) == [g EXCEPT !.viewport_offset = 0]

scrollback_len(g) == saturating_sub(Len(g.scrollback), g.rows)
total_lines(g) == Len(g.scrollback)

(* ---------------- adding content ---------------- *)
add_line_unpadded(g, line) ==
    LET pushed == [g EXCEPT !.scrollback = Append(g.scrollback, line)]
    IN [limit_scrollback(pushed) EXCEPT !.viewport_offset = 0]
add_line(g, line) ==
    LET pushed == [g EXCEPT !.scrollback = Append(g.scrollback, vec_resize(line, g.cols, Cell_empty))]
    IN [limit_scrollback(pushed) EXCEPT !.viewport_offset = 0]

scroll_up_one_line(g) ==
    LET kept == IF Len(g.scrollback) >= g.max_scrollback /\ Len(g.scrollback) > 0
                THEN Tail(g.scrollback) ELSE g.scrollback
    IN [g EXCEPT !.scrollback = Append(kept, empty_row(g.cols))]

clear(g) ==
    [g EXCEPT !.scrollback = [i \in 1..g.rows |-> empty_row(g.cols)],
              !.viewport_offset = 0,
              !.cursor_pos = <<0, 0>>,
              !.selection = None]

(* ---------------- cursor ---------------- *)
set_cursor_position(g, col, row) ==
    [g EXCEPT !.cursor_pos = <<Min(col, saturating_sub(g.cols, 1)),
                               Min(row, saturating_sub(g.rows, 1))>>]

move_cursor_up(g, lines) ==
    [g EXCEPT !.cursor_pos[2] = saturating_sub(g.cursor_pos[2], lines)]

(* u16 addition: the wrapped sum is what an unchecked build stores *)
move_cursor_down(g, lines) ==
    [g EXCEPT !.cursor_pos[2] =
        Min((g.cursor_pos[2] + lines) % U16, saturating_sub(g.rows, 1))]
move_cursor_down_overflows(g, lines) == g.cursor_pos[2] + lines >= U16

move_cursor_left(g, cols) ==
    [g EXCEPT !.cursor_pos[1] = saturating_sub(g.cursor_pos[1], cols)]

move_cursor_right(g, cols) ==
    [g EXCEPT !.cursor_pos[1] =
        Min((g.cursor_pos[1] + cols) % U16, saturating_sub(g.cols, 1))]
move_cursor_right_overflows(g, cols) == g.cursor_pos[1] + cols >= U16

move_cursor_to_column(g, col) ==
    [g EXCEPT !.cursor_pos[1] = Min(col, saturating_sub(g.cols, 1))]
move_cursor_to_row(g, row) ==
    [g EXCEPT !.cursor_pos[2] = Min(row, saturating_sub(g.rows, 1))]
move_cursor_to_line_start(g) == [g EXCEPT !.cursor_pos[1] = 0]
move_cursor_to_line_end(g) == [g EXCEPT !.cursor_pos[1] = saturating_sub(g.cols, 1)]

newline(g) ==
    LET row1 == (g.cursor_pos[2] + 1) % U16
    IN IF row1 >= g.rows
       THEN [scroll_up_one_line(g) EXCEPT !.cursor_pos = <<0, (g.rows - 1) % U16>>]
       ELSE [g EXCEPT !.cursor_pos = <<0, row1>>]
newline_overflows(g) ==
    \/ g.cursor_pos[2] + 1 >= U16
    \/ (g.cursor_pos[2] + 1 >= g.rows /\ g.rows = 0)

carriage_return(g) == [g EXCEPT !.cursor_pos[1] = 0]

tab_unclamped(g) ==
    [g EXCEPT !.cursor_pos[1] = (((g.cursor_pos[1] \div 8) + 1) * 8) % U16]
tab(g) ==
    LET stop == (((g.cursor_pos[1] \div 8) + 1) * 8) % U16
    IN [g EXCEPT !.cursor_pos[1] = IF stop >= g.cols THEN (g.cols - 1) % U16 ELSE stop]
tab_overflows(g) ==
    \/ ((g.cursor_pos[1] \div 8) + 1) * 8 >= U16
    \/ g.cols = 0

backspace(g) ==
    IF g.cursor_pos[1] > 0 THEN [g EXCEPT !.cursor_pos[1] = g.cursor_pos[1] - 1] ELSE g

advance_cursor(g) ==
    LET col1 == (g.cursor_pos[1] + 1) % U16
    IN IF col1 >= g.cols
       THEN newline([g EXCEPT !.cursor_pos[1] = 0])
       ELSE [g EXCEPT !.cursor_pos[1] = col1]
advance_cursor_overflows(g) ==
    \/ g.cursor_pos[1] + 1 >= U16
    \/ ((g.cursor_pos[1] + 1) % U16 >= g.cols /\ newline_overflows(g))

(* ---------------- writing ---------------- *)
apply_sgr(g, fg_color, bg_color, attrs) ==
    [g EXCEPT !.current_fg = fg_color, !.current_bg = bg_color, !.current_attrs = attrs]

print_char(g, c) ==
    LET cell == Cell_with_style(c, g.current_fg, g.current_bg, g.current_attrs)
    IN advance_cursor(set_cell(g, g.cursor_pos[1], g.cursor_pos[2], cell))
print_char_overflows(g) == advance_cursor_overflows(g)

LF == 10
CR == 13
HT == 9
BS == 8
execute_control(g, byte) ==
    CASE byte = LF -> newline(g)
      [] byte = CR -> carriage_return(g)
      [] byte = HT -> tab(g)
      [] byte = BS -> backspace(g)
      [] OTHER -> g
execute_control_overflows(g, byte) ==
    CASE byte = LF -> newline_overflows(g)
      [] byte = HT -> tab_overflows(g)
      [] OTHER -> FALSE

(* CsiAction: [tag, n] for the one-argument variants, [tag, row, col] for CursorPosition *)
handle_csi_action_row_first(g, action) ==
    CASE action.tag = "CursorUp" -> move_cursor_up(g, action.n)
      [] action.tag = "CursorDown" -> move_cursor_down(g, action.n)
      [] action.tag = "CursorForward" -> move_cursor_right(g, action.n)
      [] action.tag = "CursorBackward" -> move_cursor_left(g, action.n)
      [] action.tag = "CursorNextLine" -> move_cursor_to_line_start(move_cursor_down(g, action.n))
      [] action.tag = "CursorPreviousLine" -> move_cursor_to_line_start(move_cursor_up(g, action.n))
      [] action.tag = "CursorHorizontalAbsolute" -> move_cursor_to_column(g, action.n)
      [] action.tag = "CursorPosition" -> set_cursor_position(g, action.row, action.col)
      [] OTHER -> g
handle_csi_action(g, action) ==
    CASE action.tag = "CursorUp" -> move_cursor_up(g, action.n)
      [] action.tag = "CursorDown" -> move_cursor_down(g, action.n)
      [] action.tag = "CursorForward" -> move_cursor_right(g, action.n)
      [] action.tag = "CursorBackward" -> move_cursor_left(g, action.n)
      [] action.tag = "CursorNextLine" -> move_cursor_to_line_start(move_cursor_down(g, action.n))
      [] action.tag = "CursorPreviousLine" -> move_cursor_to_line_start(move_cursor_up(g, action.n))
      [] action.tag = "CursorHorizontalAbsolute" -> move_cursor_to_column(g, action.n)
      [] action.tag = "CursorPosition" -> set_cursor_position(g, action.col, action.row)
      [] OTHER -> g
handle_csi_action_overflows(g, action) ==
    CASE action.tag \in {"CursorDown", "CursorNextLine"} -> move_cursor_down_overflows(g, action.n)
      [] action.tag = "CursorForward" -> move_cursor_right_overflows(g, action.n)
      [] OTHER -> FALSE

(* ---------------- selection ---------------- *)
select_all(g) ==
    [g EXCEPT !.selection =
        Some(Selection_new(Position_new(0, 0),
                           Position_new(saturating_sub(g.cols, 1), saturating_sub(g.rows, 1))))]
clear_selection(g) == [g EXCEPT !.selection = None]
clamp_position(g, position) ==
    Position_new(Min(position.col, saturating_sub(g.cols, 1)),
                 Min(position.row, saturating_sub(g.rows, 1)))
start_selection(g, position) ==
    LET clamped_position == clamp_position(g, position)
    IN [g EXCEPT !.selection = Some(Selection_new(clamped_position, clamped_position))]
extend_selection(g, position) ==
    LET clamped_position == clamp_position(g, position)
    IN IF g.selection # None
       THEN [g EXCEPT !.selection = Some(Selection_new(g.selection[1].start, clamped_position))]
       ELSE start_selection(g, position)

get_viewport_line(g, row) ==
    IF row >= g.rows THEN None
    ELSE LET idx == viewport_row_to_scrollback_index(g, row)
         IN IF idx = None \/ idx[1] >= Len(g.scrollback) THEN None
            ELSE Some(g.scrollback[idx[1] + 1])

(* char::is_whitespace and char::is_alphanumeric, for the ASCII glyphs the cells hold *)
char_is_whitespace(ch) == ch \in {9, 10, 11, 12, 13, 32}
char_is_alphanumeric(ch) ==
    \/ ch >= 48 /\ ch <= 57
    \/ ch >= 65 /\ ch <= 90
    \/ ch >= 97 /\ ch <= 122
UNDERSCORE == 95
(* str::trim_end *)
RECURSIVE trim_end(_)
trim_end(s) ==
    IF s = <<>> \/ ~char_is_whitespace(s[Len(s)]) THEN s
    ELSE trim_end(SubSeq(s, 1, Len(s) - 1))

(* the characters of columns from..to of a line; a column past the line adds nothing *)
RECURSIVE cells_text(_, _, _)
cells_text(line, from, to) ==
    IF from > to THEN <<>>
    ELSE LET here == IF from < Len(line)
                     THEN LET cell == line[from + 1]
                          IN IF cell.glyph_id # 0 /\ ~Cell_is_empty(cell)
                             THEN <<cell.glyph_id>> ELSE <<SPACE>>
                     ELSE <<>>
         IN here \o cells_text(line, from + 1, to)

(* the rows row..end.row of a multi-line selection *)
RECURSIVE extract_rows(_, _, _, _)
extract_rows(g, start, end, row) ==
    IF row > end.row THEN <<>>
    ELSE LET line == get_viewport_line(g, row)
             start_col == IF row = start.row THEN start.col ELSE 0
             end_col == IF row = end.row THEN Min(end.col, saturating_sub(g.cols, 1))
                        ELSE saturating_sub(g.cols, 1)
             here == IF line = None THEN <<>>
                     ELSE trim_end(cells_text(line[1], start_col, end_col))
                          \o (IF row < end.row THEN <<LF>> ELSE <<>>)
         IN here \o extract_rows(g, start, end, row + 1)

extract_text_from_selection(g, selection) ==
    LET start == selection.start
        end == selection.end
    IN IF start.row = end.row
       THEN LET line == get_viewport_line(g, start.row)
            IN IF line = None THEN <<>>
               ELSE cells_text(line[1], start.col, Min(end.col, saturating_sub(g.cols, 1)))
       ELSE extract_rows(g, start, end, start.row)

(* Option<String>: None, or Some of the characters *)
get_selected_text(g) ==
    IF g.selection = None THEN None
    ELSE LET text == extract_text_from_selection(g, g.selection[1])
         IN IF text = <<>> THEN None ELSE Some(text)

is_word_char(glyph_id) == char_is_alphanumeric(glyph_id) \/ glyph_id = UNDERSCORE
RECURSIVE find_word_boundary_left(_, _)
find_word_boundary_left(line, col) ==
    IF col > 0 /\ col - 1 < Len(line) /\ is_word_char(line[col].glyph_id)
    THEN find_word_boundary_left(line, col - 1)
    ELSE col
RECURSIVE word_end(_, _)
word_end(line, col) ==
    IF col < Len(line) /\ is_word_char(line[col + 1].glyph_id)
    THEN word_end(line, col + 1)
    ELSE col
find_word_boundary_right(g, line, start_col) ==
    LET col == word_end(line, start_col)
    IN IF col > start_col THEN Min(col - 1, saturating_sub(g.cols, 1)) ELSE start_col
select_word_at(g, position) ==
    LET clamped_pos == clamp_position(g, position)
        line == get_viewport_line(g, clamped_pos.row)
    IN IF line = None THEN g
       ELSE [g EXCEPT !.selection =
                Some(Selection_new(
                    Position_new(find_word_boundary_left(line[1], clamped_pos.col), clamped_pos.row),
                    Position_new(find_word_boundary_right(g, line[1], clamped_pos.col), clamped_pos.row)))]


(* ======================= PTY session (crates/pty/src/lib.rs) ======================= *)
(* `pty` holds one Pty and everything its session touches: the two channels, the  *)
(* session task, the read task, the child shell and the runtime's worker threads. *)
(* bounds: lines the shell prints, commands waiting in the channel, how many      *)
(* commands and events the histories record, and how many writes or resizes fail  *)
MaxChunks == 2
MaxQueue == 2
MaxHistory == 2
MaxEvents == 4
MaxIoErrors == 1

(* threads of the tokio runtime that run spawned tasks: #[tokio::test] gives a *)
(* current-thread runtime, #[tokio::main] one worker per core                  *)
WorkerThreads == {1, 2}
(* a line of shell output either makes the parser produce actions or not *)
ChunkKinds == {"actions", "no_actions"}
PtyCommands ==
    {[kind |-> "WriteData"], [kind |-> "Resize"], [kind |-> "Shutdown"]}
PtyEvent_Data(i) == <<"Data", i>>
PtyEvent_ParsedActions(i) == <<"ParsedActions", i>>
PtyEvent_ProcessExit(code) == <<"ProcessExit", code>>
PtyEvent_Error == <<"Error", 0>>

Pty_new(workers) ==
    [workers |-> workers,
     started |-> FALSE, start_result |-> "none",
     session |-> "none", ended_by |-> "none",
     reader |-> "none", aborted |-> FALSE,
     child |-> "none", stream |-> <<>>, read |-> 0,
     cmds |-> <<>>, app_alive |-> TRUE, tick_due |-> FALSE,
     sent |-> <<>>, applied |-> <<>>, events |-> <<>>, exits |-> 0,
     io_errors |-> 0, open_failed |-> FALSE, logged |-> FALSE]

(* ======================= plugin host (crates/plugins-host) ======================= *)
(* `host` holds one plugin's CapabilitySet and ResourceMonitor, the clock, and the *)
(* outcome of the last call.  Strings that are taken apart (paths, pattern bases)  *)
(* are sequences of characters.                                                    *)
(* bounds: the caps of the monitor, the clock, and how long one call may run *)
MaxFileHandles == 2
MaxConnections == 1
MaxClock == 4
MaxCallTime == 3
(* bounds: ExecutionLimits.max_time and max_memory, in clock ticks and memory units *)
TimeLimit == 2
MemoryLimit == 1

Capability_FileSystemRead(base, recursive) ==
    [tag |-> "FileSystemRead", pattern |-> base, recursive |-> recursive]
Capability_FileSystemWrite(base, recursive) ==
    [tag |-> "FileSystemWrite", pattern |-> base, recursive |-> recursive]
Capability_NetworkFetch(url) == [tag |-> "NetworkFetch", pattern |-> url, recursive |-> FALSE]
Capability_unit(tag) == [tag |-> tag, pattern |-> <<>>, recursive |-> FALSE]

ExecutionLimits(max_file_handles, max_network_connections) ==
    [max_memory |-> MemoryLimit, max_time |-> TimeLimit,
     max_file_handles |-> max_file_handles,
     max_network_connections |-> max_network_connections]

ResourceMonitor_new(limits, now) ==
    [start_time |-> now, limits |-> limits,
     memory_usage |-> 0, file_handles |-> 0, network_connections |-> 0]

NoCall == [seq |-> 0, op |-> "none", arg |-> <<>>, value |-> "none", d |-> 0]

Host_new(limits) ==
    [loaded |-> FALSE, capabilities |-> {}, limits |-> limits,
     resource_monitor |-> ResourceMonitor_new(limits, 0), now |-> 0, call |-> NoCall]

(* ======================= action registry (crates/plugins-host/src/actions.rs) ======================= *)
(* `registry` holds one ActionRegistry and the outcome of the last call on it.  An action *)
(* id is a sequence of characters; a HashMap is a function on the set of its keys.        *)
NoRegistryCall ==
    [seq |-> 0, op |-> "none", id |-> <<>>, plugin_id |-> "none", value |-> "none", count_before |-> 0]
HashMap_new == [k \in {} |-> <<>>]
ActionRegistry_new == [actions |-> HashMap_new, plugin_actions |-> HashMap_new, call |-> NoRegistryCall]

(* ======================= glyph atlas (crates/renderer/src/font/atlas.rs) ======================= *)
(* `atlas` holds one GlyphAtlas and the outcome of the last call on it.  The LruCache is the *)
(* sequence of its entries, least recently used first.  Texture bytes, UV coordinates and   *)
(* metrics are left out: no packing or caching decision reads them.                         *)
(* bounds: the texture's sides, the cache capacity (the code uses 1000), the glyph ids that *)
(* are requested, the largest side of a glyph outline and the number of shelves             *)
AtlasWidth == 10
AtlasHeight == 10
CacheCapacity == 2
MaxGlyphs == 3
MaxGlyphSide == 1
MaxShelves == 2
(* GlyphAtlas::new: padding *)
Padding == 2

NoAtlasCall ==
    [seq |-> 0, op |-> "none", key |-> 0, value |-> "none", evicted |-> 0, first_inserted |-> 0]
GlyphAtlas_new(width, height) ==
    [width |-> width, height |-> height, capacity |-> CacheCapacity,
     glyph_cache |-> <<>>, shelves |-> <<>>, current_y |-> 0, padding |-> Padding,
     accessed |-> <<>>, inserted |-> <<>>, call |-> NoAtlasCall]

(* ======================= VT parser (crates/pty/src/parser.rs) ======================= *)
(* `term` holds one TerminalParser (the vte machine and its ParserState), the bytes  *)
(* of a session with how many of them were fed and where the chunks ended, and the   *)
(* parameters of the last SGR applied, with whether the state was the default one   *)
(* before it.                                                                        *)
ITALIC == 2
UNDERLINE == 4
STRIKETHROUGH == 8
BLINK == 16
REVERSE == 32

ParserState_default == [fg_color |-> DEFAULT_FG, bg_color |-> DEFAULT_BG, attrs |-> CellAttrs_empty]
(* vte::Parser: its state, the parameters collected so far and the one being read *)
VteParser_new == [state |-> "Ground", params |-> <<>>, param |-> 0]
TerminalParser_new == [parser |-> VteParser_new, state |-> ParserState_default]
NoSgrCall == [seq |-> 0, params |-> <<>>, was_default |-> TRUE]
Term_new == [parser |-> TerminalParser_new, text |-> <<>>, fed |-> 0, cuts |-> {}, call |-> NoSgrCall]

RestIdle ==
    /\ registry = ActionRegistry_new
    /\ atlas = GlyphAtlas_new(AtlasWidth, AtlasHeight)
    /\ term = Term_new
OthersIdle == pty = Pty_new(2) /\ host = Host_new(ExecutionLimits(0, 0)) /\ RestIdle

(* ======================= the state machine ======================= *)
(* inputs *)
Dims == {<<c, r>> : c \in 1..MaxCols, r \in 1..MaxRows}
Chars == {SPACE, 65}
RED == Color_rgb(128, 0, 0)
Styles == {<<DEFAULT_FG, DEFAULT_BG, CellAttrs_empty>>, <<RED, DEFAULT_BG, BOLD>>}
(* a glyph, an empty cell, and a space that is not empty because it is styled *)
InputCells == {Cell_new(65), Cell_empty, Cell_with_style(SPACE, RED, DEFAULT_BG, BOLD)}
U16Args == {0, 1, U16 - 1}
ScrollArgs == 0..(MaxScrollback + 1)
ControlBytes == {LF, CR, HT, BS, 7}
(* lines shorter than, as long as and longer than any grid width *)
InputLine(n, first, last) ==
    [i \in 1..n |-> IF (i = 1 /\ first) \/ (i = n /\ last) THEN Cell_new(65) ELSE Cell_empty]
InputLines ==
    {InputLine(n, first, last) : n \in 0..(MaxCols + 1), first \in BOOLEAN, last \in BOOLEAN}
CsiActions ==
    {[tag |-> t, n |-> n] :
        t \in {"CursorUp", "CursorDown", "CursorForward", "CursorBackward", "CursorNextLine",
               "CursorPreviousLine", "CursorHorizontalAbsolute"},
        n \in {1, U16 - 1}}
    \cup {[tag |-> "Sgr", n |-> 0], [tag |-> "Other", n |-> 0]}
    \cup {[tag |-> "CursorPosition", row |-> r, col |-> c] : r \in {0, U16 - 1}, c \in {1, U16 - 1}}

(* number of non-empty cells stored *)
RECURSIVE SumSeq(_)
SumSeq(q) == IF q = <<>> THEN 0 ELSE Head(q) + SumSeq(Tail(q))
Ink(g) ==
    SumSeq([i \in 1..Len(g.scrollback) |->
              Cardinality({j \in 1..Len(g.scrollback[i]) : ~Cell_is_empty(g.scrollback[i][j])})])

(* history: the kind of the last call (the method for the calls that change *)
(* the stored rows, "cursor" and "viewport" for the others), which branch   *)
(* of resize handled the columns, and whether the call scrolled by itself   *)
NoOp == [name |-> "new", cols_change |-> "none", auto_scroll |-> FALSE]
Op(name, cols_change, auto_scroll) ==
    [name |-> name, cols_change |-> cols_change, auto_scroll |-> auto_scroll]

(* a call that cannot overflow *)
Call(name, result) ==
    /\ ~panicked
    /\ Ink(result) <= MaxInk
    /\ grid' = result
    /\ last_op' = Op(name, "none", FALSE)
    /\ UNCHANGED <<panicked, script, others>>

(* a call with checked u16 arithmetic: a build with overflow checks panics, *)
(* a build without them stores the wrapped value                            *)
CallChecked(name, result, overflows, auto_scroll) ==
    /\ ~panicked
    /\ Ink(result) <= MaxInk
    /\ \/ /\ ~overflows
          /\ grid' = result
          /\ last_op' = Op(name, "none", auto_scroll)
          /\ UNCHANGED <<panicked, script, others>>
       \/ /\ overflows
          /\ grid' = result
          /\ last_op' = Op(name, "none", auto_scroll)
          /\ UNCHANGED <<panicked, script, others>>
       \/ /\ overflows
          /\ panicked' = TRUE
          /\ UNCHANGED <<grid, last_op, script, others>>

on_last_row(g) == g.cursor_pos[2] + 1 >= g.rows
on_last_col(g) == g.cursor_pos[1] + 1 >= g.cols

cols_branch(g, new_cols) ==
    IF new_cols = g.cols THEN "none"
    ELSE IF new_cols > g.cols THEN "expand"
    ELSE IF needs_rewrapping(g, new_cols) THEN "rewrap" ELSE "truncate"

Resize ==
    \E d \in Dims :
        /\ ~panicked
        /\ Ink(resize(grid, d[1], d[2])) <= MaxInk
        /\ grid' = resize(grid, d[1], d[2])
        /\ last_op' = Op("resize", cols_branch(grid, d[1]), FALSE)
        /\ UNCHANGED <<panicked, script, others>>
SetCell == \E col \in 0..MaxCols, row \in 0..MaxRows, cell \in InputCells :
               Call("set_cell", set_cell(grid, col, row, cell))
ScrollUp == \E lines \in ScrollArgs : Call("viewport", scroll_up(grid, lines))
ScrollDown == \E lines \in ScrollArgs : Call("viewport", scroll_down(grid, lines))
PageUp == Call("viewport", page_up(grid))
PageDown == Call("viewport", page_down(grid))
ScrollToTop == Call("viewport", scroll_to_top(grid))
ResetViewport == Call("viewport", reset_viewport(grid))
AddLine == \E line \in InputLines : Call("add_line", add_line(grid, line))
Clear == Call("clear", clear(grid))
SetCursorPosition == \E col \in U16Args, row \in U16Args :
                         Call("cursor", set_cursor_position(grid, col, row))
MoveCursorUp == \E n \in U16Args : Call("cursor", move_cursor_up(grid, n))
MoveCursorDown == \E n \in U16Args :
                      CallChecked("cursor", move_cursor_down(grid, n),
                                  move_cursor_down_overflows(grid, n), FALSE)
MoveCursorLeft == \E n \in U16Args : Call("cursor", move_cursor_left(grid, n))
MoveCursorRight == \E n \in U16Args :
                       CallChecked("cursor", move_cursor_right(grid, n),
                                   move_cursor_right_overflows(grid, n), FALSE)
MoveCursorToColumn == \E n \in U16Args : Call("cursor", move_cursor_to_column(grid, n))
MoveCursorToRow == \E n \in U16Args : Call("cursor", move_cursor_to_row(grid, n))
MoveCursorToLineStart == Call("cursor", move_cursor_to_line_start(grid))
MoveCursorToLineEnd == Call("cursor", move_cursor_to_line_end(grid))
PrintChar == \E c \in Chars :
                 CallChecked("print_char", print_char(grid, c), print_char_overflows(grid),
                             on_last_col(grid) /\ on_last_row(grid))
ExecuteControl == \E byte \in ControlBytes :
                      CallChecked("execute_control", execute_control(grid, byte),
                                  execute_control_overflows(grid, byte),
                                  byte = LF /\ on_last_row(grid))
HandleCsiAction == \E action \in CsiActions :
                       CallChecked("cursor", handle_csi_action(grid, action),
                                   handle_csi_action_overflows(grid, action), FALSE)

Init ==
    /\ \E d \in Dims, m \in 0..MaxScrollback : grid = with_scrollback(d[1], d[2], m)
    /\ panicked = FALSE
    /\ last_op = NoOp
    /\ script = <<>>
    /\ OthersIdle

Next ==
    \/ Resize \/ SetCell \/ ScrollUp \/ ScrollDown \/ PageUp \/ PageDown
    \/ ScrollToTop \/ ResetViewport \/ AddLine \/ Clear
    \/ SetCursorPosition \/ MoveCursorUp \/ MoveCursorDown \/ MoveCursorLeft
    \/ MoveCursorRight \/ MoveCursorToColumn \/ MoveCursorToRow
    \/ MoveCursorToLineStart \/ MoveCursorToLineEnd
    \/ PrintChar \/ ExecuteControl \/ HandleCsiAction

Spec == Init /\ [][Next]_vars

(* ============ the grid with every u16 dimension allowed, zero included ============ *)
Dims0 == {<<c, r>> : c \in 0..MaxCols, r \in 0..MaxRows}

(* rewrap_lines with new_cols = 0 and content to flow: take_count is 0, the *)
(* drain removes nothing and the while loop pushes rows without end         *)
resize_diverges(g, new_cols) ==
    new_cols = 0 /\ new_cols < g.cols /\ needs_rewrapping(g, new_cols)

ResizeAny ==
    \E d \in Dims0 :
        /\ ~panicked
        /\ \/ /\ ~resize_diverges(grid, d[1])
              /\ Ink(resize(grid, d[1], d[2])) <= MaxInk
              /\ grid' = resize(grid, d[1], d[2])
              /\ last_op' = Op("resize", cols_branch(grid, d[1]), FALSE)
              /\ UNCHANGED <<panicked, script, others>>
           \/ /\ resize_diverges(grid, d[1])
              /\ grid' = [grid EXCEPT !.cols = d[1], !.rows = d[2]]
              /\ last_op' = Op("resize", "diverges", FALSE)
              /\ panicked' = TRUE
              /\ UNCHANGED <<script, others>>

NextAny == ResizeAny \/ PrintChar \/ AddLine \/ SetCell

SpecAny == Init /\ [][NextAny]_vars

(* ======================= PTY session: the tasks ======================= *)
(* event_tx.send: the event reaches the channel unless the receiver is gone; *)
(* `events` records the first MaxEvents events sent                          *)
send_event(p, ev) ==
    IF p.app_alive /\ Len(p.events) < MaxEvents
    THEN [p EXCEPT !.events = Append(@, ev)]
    ELSE p
record(history, x) == IF Len(history) < MaxHistory THEN Append(history, x) ELSE history

(* the read task's loop has no await point: once it runs it keeps its thread *)
reader_running(p) == p.reader \in {"reading", "parsing"}
session_can_run(p) == p.workers >= 2 \/ ~reader_running(p)

next_chunk_newest(p) == Len(p.stream)
(* read_until returns the next unread line *)
next_chunk(p) == p.read + 1

(* the end of pty_task: read_task.abort(), child.kill(), the channels' ends dropped *)
cleanup(p, cause) ==
    [p EXCEPT !.session = "ended", !.ended_by = cause, !.aborted = TRUE,
              !.child = IF @ = "alive" THEN "killed" ELSE @,
              !.cmds = <<>>, !.tick_due = FALSE]

PtyStep(p) ==
    /\ pty' = p
    /\ UNCHANGED <<grid, panicked, last_op, script, host, rest>>

StartShell ==
    /\ ~pty.started
    /\ PtyStep([pty EXCEPT !.started = TRUE, !.start_result = "Ok", !.session = "spawned"])

(* openpty, spawn_command, try_clone_reader, take_writer: any may fail, and `?` *)
(* returns the error to the spawned closure, which logs it                      *)
SessionOpen ==
    /\ pty.session = "spawned"
    /\ \E ok \in BOOLEAN :
          IF ok
          THEN PtyStep([pty EXCEPT !.session = "running", !.child = "alive",
                                   !.reader = "unstarted"])
          ELSE PtyStep([pty EXCEPT !.session = "failed", !.open_failed = TRUE,
                                   !.logged = TRUE, !.cmds = <<>>])

(* the first poll of the read task; an abort that came first cancels it *)
ReaderStart ==
    /\ pty.reader = "unstarted"
    /\ PtyStep([pty EXCEPT !.reader = IF pty.aborted THEN "cancelled" ELSE "reading"])

ReaderRead ==
    /\ pty.reader = "reading"
    /\ pty.read < Len(pty.stream)
    /\ LET i == next_chunk(pty)
       IN IF pty.app_alive
          THEN PtyStep([send_event(pty, PtyEvent_Data(i)) EXCEPT !.read = i, !.reader = "parsing"])
          ELSE PtyStep([pty EXCEPT !.read = i, !.reader = "done"])

ReaderParse ==
    /\ pty.reader = "parsing"
    /\ IF pty.stream[pty.read] = "actions"
       THEN IF pty.app_alive
            THEN PtyStep([send_event(pty, PtyEvent_ParsedActions(pty.read))
                             EXCEPT !.reader = "reading"])
            ELSE PtyStep([pty EXCEPT !.reader = "done"])
       ELSE PtyStep([pty EXCEPT !.reader = "reading"])

(* nothing left and the child gone: read_until gives Ok(0) or an error *)
ReaderEnd ==
    /\ pty.reader = "reading"
    /\ pty.read = Len(pty.stream)
    /\ pty.child \in {"exited", "killed"}
    /\ \E eof \in BOOLEAN :
          IF eof THEN PtyStep([pty EXCEPT !.reader = "done"])
          ELSE PtyStep([send_event(pty, PtyEvent_Error) EXCEPT !.reader = "done"])

ShellOutput ==
    /\ pty.child = "alive"
    /\ Len(pty.stream) < MaxChunks
    /\ \E k \in ChunkKinds : PtyStep([pty EXCEPT !.stream = Append(@, k)])

ShellExit ==
    /\ pty.child = "alive"
    /\ PtyStep([pty EXCEPT !.child = "exited"])

(* send_command while the session task still holds command_rx *)
AppSend ==
    /\ pty.started
    /\ pty.app_alive
    /\ pty.session \in {"spawned", "running"}
    /\ Len(pty.cmds) < MaxQueue
    /\ \E c \in PtyCommands :
          PtyStep([pty EXCEPT !.cmds = Append(@, c), !.sent = record(@, c)])

(* the application drops its Pty: command_tx and event_rx go away *)
AppDrop ==
    /\ pty.started
    /\ pty.app_alive
    /\ PtyStep([pty EXCEPT !.app_alive = FALSE])

(* the recv branch of select!: a command, or None once the channel is closed and empty *)
SessionRecv ==
    /\ pty.session = "running"
    /\ session_can_run(pty)
    /\ \/ /\ pty.cmds # <<>>
          /\ Head(pty.cmds).kind # "Shutdown"
          /\ \E ok \in {TRUE} \cup {FALSE : e \in 1..(MaxIoErrors - pty.io_errors)} :
                LET p == [pty EXCEPT !.cmds = Tail(@), !.applied = record(@, Head(pty.cmds)),
                                     !.tick_due = FALSE]
                IN PtyStep(IF ok THEN p
                           ELSE [send_event(p, PtyEvent_Error) EXCEPT !.io_errors = @ + 1])
       \/ /\ pty.cmds # <<>>
          /\ Head(pty.cmds).kind = "Shutdown"
          /\ PtyStep(cleanup(pty, "Shutdown"))
       \/ /\ pty.cmds = <<>>
          /\ ~pty.app_alive
          /\ PtyStep(cleanup(pty, "closed"))

(* the sleep branch of select!: try_wait, ProcessExit if the child has exited *)
SessionTick ==
    /\ pty.session = "running"
    /\ session_can_run(pty)
    /\ pty.tick_due
    /\ IF pty.child = "exited"
       THEN PtyStep(cleanup([send_event(pty, PtyEvent_ProcessExit(0)) EXCEPT !.exits = @ + 1],
                            "exit"))
       ELSE PtyStep([pty EXCEPT !.tick_due = FALSE])

(* 100 ms pass in one turn of the loop: only if the recv branch did not finish *)
(* first, i.e. no command was there for the session task to take              *)
TimePasses ==
    /\ pty.session = "running"
    /\ ~pty.tick_due
    /\ (pty.cmds = <<>> /\ pty.app_alive) \/ ~session_can_run(pty)
    /\ PtyStep([pty EXCEPT !.tick_due = TRUE])

InitPty ==
    /\ grid = with_scrollback(1, 1, 0)
    /\ panicked = FALSE
    /\ last_op = NoOp
    /\ script = <<>>
    /\ \E w \in WorkerThreads : pty = Pty_new(w)
    /\ host = Host_new(ExecutionLimits(0, 0))
    /\ RestIdle

ReaderStep == ReaderStart \/ ReaderRead \/ ReaderParse \/ ReaderEnd

NextPty ==
    \/ StartShell \/ SessionOpen \/ SessionRecv \/ SessionTick
    \/ ReaderStart \/ ReaderRead \/ ReaderParse \/ ReaderEnd
    \/ ShellOutput \/ ShellExit \/ AppSend \/ AppDrop \/ TimePasses

SpecPty == InitPty /\ [][NextPty]_vars

(* the tasks are scheduled fairly and time goes by; select! polls its branches *)
(* in random order, so a branch that is ready again and again is taken; the   *)
(* shell and the application are free to do nothing                            *)
FairSpecPty ==
    /\ SpecPty
    /\ WF_vars(SessionOpen) /\ SF_vars(SessionRecv) /\ SF_vars(SessionTick)
    /\ WF_vars(ReaderStep) /\ WF_vars(TimePasses)

(* ======================= plugin host: capabilities ======================= *)
starts_with(s, prefix) == Len(prefix) <= Len(s) /\ SubSeq(s, 1, Len(prefix)) = prefix

PATH_a == <<"/", "a">>
PATH_b == <<"/", "b">>
PATH_ab == <<"/", "a", "b">>
PATH_a_b == <<"/", "a", "/", "b">>
PATH_b_a == <<"/", "b", "/", "a">>
Paths == {PATH_a, PATH_ab, PATH_a_b, PATH_b_a}

(* Path::parent of a normalised absolute path, as a string; "" when there is none *)
path_parent(path) ==
    LET S == {i \in 1..Len(path) : path[i] = "/"}
        last == CHOOSE i \in S : \A j \in S : j <= i
    IN IF S = {} \/ path = <<"/">> THEN <<>>
       ELSE IF last = 1 THEN <<"/">>
       ELSE SubSeq(path, 1, last - 1)

path_matches_pattern(path, capability) ==
    IF capability.recursive
    THEN starts_with(path, capability.pattern)
    ELSE path_parent(path) = capability.pattern

check_file_access_any_grant(capabilities, path, write) ==
    IF \E capability \in capabilities :
          /\ capability.tag \in {"FileSystemRead", "FileSystemWrite"}
          /\ path_matches_pattern(path, capability)
    THEN "Ok" ELSE "Err"
check_file_access(capabilities, path, write) ==
    IF \E capability \in capabilities :
          \/ /\ capability.tag = "FileSystemRead" /\ ~write
             /\ path_matches_pattern(path, capability)
          \/ /\ capability.tag = "FileSystemWrite" /\ write
             /\ path_matches_pattern(path, capability)
    THEN "Ok" ELSE "Err"

has_capability(capabilities, capability) == capability \in capabilities

(* the capability strings of a manifest *)
CapabilityStrings ==
    {"block.read", "config.write", "fs.read:/a", "fs.write:/b", "net.fetch:h", "unknown"}
parse_capability_string(cap_str) ==
    CASE cap_str = "block.read" -> Some(Capability_unit("BlockRead"))
      [] cap_str = "block.write" -> Some(Capability_unit("BlockWrite"))
      [] cap_str = "palette.add_action" -> Some(Capability_unit("PaletteAddAction"))
      [] cap_str = "config.read" -> Some(Capability_unit("ConfigRead"))
      [] cap_str = "config.write" -> Some(Capability_unit("ConfigWrite"))
      [] cap_str = "ai.access" -> Some(Capability_unit("AiAccess"))
      [] cap_str = "fs.read:/a" -> Some(Capability_FileSystemRead(PATH_a, TRUE))
      [] cap_str = "fs.write:/b" -> Some(Capability_FileSystemWrite(PATH_b, TRUE))
      [] cap_str = "net.fetch:h" -> Some(Capability_NetworkFetch(<<"h">>))
      [] OTHER -> None

from_manifest(cap_strs) ==
    {parse_capability_string(s)[1] : s \in {t \in cap_strs : parse_capability_string(t) # None}}

(* the host function linked as env.host_check_capability *)
host_check_capability(capabilities, cap_str) == 1

CapabilityUniverse ==
    {Capability_FileSystemRead(PATH_a, TRUE), Capability_FileSystemRead(PATH_a, FALSE),
     Capability_FileSystemWrite(PATH_b, TRUE), Capability_FileSystemWrite(PATH_a, FALSE),
     Capability_unit("BlockRead"), Capability_unit("ConfigWrite"),
     Capability_NetworkFetch(<<"h">>)}

(* a call on the plugin host: the outcome is kept in host.call *)
Called(h, op, arg, value, d) ==
    [h EXCEPT !.call = [seq |-> 1 - h.call.seq, op |-> op, arg |-> arg, value |-> value, d |-> d]]
HostStep(h) ==
    /\ host' = h
    /\ UNCHANGED <<grid, panicked, last_op, script, pty, rest>>

LoadPluginModule ==
    \E cap_strs \in SUBSET CapabilityStrings :
        HostStep(Called([host EXCEPT !.loaded = TRUE,
                                     !.capabilities = from_manifest(cap_strs),
                                     !.resource_monitor = ResourceMonitor_new(host.limits, host.now)],
                        "load_plugin_module", <<>>, "Ok", 0))
AddCapability ==
    \E capability \in CapabilityUniverse :
        HostStep(Called([host EXCEPT !.capabilities = @ \cup {capability}],
                        "add_capability", <<>>, "Ok", 0))
RemoveCapability ==
    \E capability \in CapabilityUniverse :
        HostStep(Called([host EXCEPT !.capabilities = @ \ {capability}],
                        "remove_capability", <<>>, "Ok", 0))
CheckFileAccess ==
    \E path \in Paths, write \in BOOLEAN :
        HostStep(Called(host, "check_file_access", <<path, write>>,
                        check_file_access(host.capabilities, path, write), 0))
HostCheckCapability ==
    \E cap_str \in CapabilityStrings :
        /\ host.loaded
        /\ HostStep(Called(host, "host_check_capability", <<cap_str>>,
                           host_check_capability(host.capabilities, cap_str), 0))

InitCapabilities ==
    /\ grid = with_scrollback(1, 1, 0)
    /\ panicked = FALSE
    /\ last_op = NoOp
    /\ script = <<>>
    /\ pty = Pty_new(2)
    /\ host = Host_new(ExecutionLimits(0, 0))
    /\ RestIdle

NextCapabilities ==
    \/ LoadPluginModule \/ AddCapability \/ RemoveCapability
    \/ CheckFileAccess \/ HostCheckCapability

SpecCapabilities == InitCapabilities /\ [][NextCapabilities]_vars

(* ======================= plugin host: resource monitor ======================= *)
check_limits(m, now) ==
    IF now - m.start_time > m.limits.max_time THEN "Timeout"
    ELSE IF m.memory_usage > m.limits.max_memory THEN "MemoryLimit"
    ELSE IF m.file_handles > m.limits.max_file_handles THEN "FileHandleLimit"
    ELSE IF m.network_connections > m.limits.max_network_connections
    THEN "NetworkConnectionLimit"
    ELSE "Ok"

update_memory_usage(m, bytes) == [m EXCEPT !.memory_usage = bytes]

add_file_handle_ok(m) == ~(m.file_handles + 1 > m.limits.max_file_handles)
add_file_handle_counting_first(m) == [m EXCEPT !.file_handles = @ + 1]
add_file_handle(m) ==
    IF add_file_handle_ok(m) THEN [m EXCEPT !.file_handles = @ + 1] ELSE m
remove_file_handle(m) ==
    IF m.file_handles > 0 THEN [m EXCEPT !.file_handles = @ - 1] ELSE m

add_network_connection_ok(m) == ~(m.network_connections + 1 > m.limits.max_network_connections)
add_network_connection(m) ==
    IF add_network_connection_ok(m) THEN [m EXCEPT !.network_connections = @ + 1] ELSE m
remove_network_connection(m) ==
    IF m.network_connections > 0 THEN [m EXCEPT !.network_connections = @ - 1] ELSE m

AddFileHandle ==
    /\ host.loaded
    /\ HostStep(Called([host EXCEPT !.resource_monitor = add_file_handle(@)], "add_file_handle", <<>>,
                    IF add_file_handle_ok(host.resource_monitor) THEN "Ok" ELSE "FileHandleLimit",
                    0))
RemoveFileHandle ==
    /\ host.loaded
    /\ HostStep(Called([host EXCEPT !.resource_monitor = remove_file_handle(@)],
                    "remove_file_handle", <<>>, "Ok", 0))
AddNetworkConnection ==
    /\ host.loaded
    /\ HostStep(Called([host EXCEPT !.resource_monitor = add_network_connection(@)],
                    "add_network_connection", <<>>,
                    IF add_network_connection_ok(host.resource_monitor)
                    THEN "Ok" ELSE "NetworkConnectionLimit",
                    0))
RemoveNetworkConnection ==
    /\ host.loaded
    /\ HostStep(Called([host EXCEPT !.resource_monitor = remove_network_connection(@)],
                    "remove_network_connection", <<>>, "Ok", 0))

(* the wall clock *)
ClockTick ==
    /\ host.now < MaxClock
    /\ HostStep([host EXCEPT !.now = @ + 1])

(* load_plugin_module with a manifest that asks for nothing: the plugin's *)
(* ResourceMonitor is created here                                        *)
LoadPlugin ==
    /\ ~host.loaded
    /\ HostStep(Called([host EXCEPT !.loaded = TRUE,
                                    !.capabilities = from_manifest({}),
                                    !.resource_monitor =
                                        ResourceMonitor_new(host.limits, host.now)],
                       "load_plugin_module", <<>>, "Ok", 0))
UnloadPlugin ==
    /\ host.loaded
    /\ HostStep(Called([host EXCEPT !.loaded = FALSE], "unload_plugin", <<>>, "Ok", 0))

(* execute_plugin_function: the function, if the plugin exports it, runs for d *)
(* ticks and ends normally, leaving memory_size bytes in use, or with a trap   *)
ExecutePluginFunction ==
    \E exported \in BOOLEAN, d \in 0..MaxCallTime, trap \in BOOLEAN, memory_size \in 0..(MemoryLimit + 1) :
        LET m == host.resource_monitor
            finished == [host EXCEPT !.now = @ + d,
                                     !.resource_monitor = update_memory_usage(m, memory_size)]
        IN IF ~host.loaded
           THEN HostStep(Called(host, "execute_plugin_function", <<>>, "PluginNotFound", 0))
           ELSE IF check_limits(m, host.now) # "Ok"
           THEN HostStep(Called(host, "execute_plugin_function", <<>>,
                                check_limits(m, host.now), 0))
           ELSE IF ~exported
           THEN HostStep(Called(host, "execute_plugin_function", <<>>, "ExecutionError", 0))
           ELSE /\ host.now + d <= MaxClock
                /\ IF trap
                   THEN HostStep(Called([host EXCEPT !.now = @ + d], "execute_plugin_function",
                                        <<>>, "ExecutionError", d))
                   ELSE HostStep(Called(finished, "execute_plugin_function", <<>>,
                                        check_limits(finished.resource_monitor, finished.now), d))

InitMonitor ==
    /\ grid = with_scrollback(1, 1, 0)
    /\ panicked = FALSE
    /\ last_op = NoOp
    /\ script = <<>>
    /\ pty = Pty_new(2)
    /\ \E f \in 0..MaxFileHandles, n \in 0..MaxConnections :
          host = Host_new(ExecutionLimits(f, n))
    /\ RestIdle

NextMonitor ==
    \/ LoadPlugin \/ UnloadPlugin \/ ExecutePluginFunction \/ ClockTick
    \/ AddFileHandle \/ RemoveFileHandle \/ AddNetworkConnection \/ RemoveNetworkConnection

SpecMonitor == InitMonitor /\ [][NextMonitor]_vars

(* ======================= action registry: the calls ======================= *)
(* bound: the longest action id that is tried *)
MaxIdLen == 5
(* one character of each class: ASCII letters, an ASCII digit, underscore, hyphen, *)
(* dot, space, and a letter outside ASCII (U+00E9, e with acute accent)            *)
AsciiLetters == {"a", "b", "x", "y"}
AsciiDigits == {"1"}
NonAsciiLetters == {"U+00E9"}
IdChars == {"a", "1", "_", "-", ".", " ", "U+00E9"}
(* char::is_alphanumeric: the Unicode properties Alphabetic and Numeric *)
is_alphanumeric(c) == c \in AsciiLetters \cup AsciiDigits \cup NonAsciiLetters

(* str::split(sep) collected into a Vec: the empty string gives one empty part *)
RECURSIVE str_split(_, _)
str_split(s, sep) ==
    IF \A i \in 1..Len(s) : s[i] # sep
    THEN <<s>>
    ELSE LET i == CHOOSE k \in 1..Len(s) : s[k] = sep /\ \A j \in 1..(k - 1) : s[j] # sep
         IN <<SubSeq(s, 1, i - 1)>> \o str_split(SubSeq(s, i + 1, Len(s)), sep)

is_valid_action_id(action_id) ==
    LET parts == str_split(action_id, ".")
    IN /\ Len(parts) = 2
       /\ parts[1] # <<>>
       /\ parts[2] # <<>>
       /\ \A p \in 1..Len(parts) : \A k \in 1..Len(parts[p]) :
             is_alphanumeric(parts[p][k]) \/ parts[p][k] = "_" \/ parts[p][k] = "-"

Action_new(id, name, plugin_id) == [id |-> id, name |-> name, plugin_id |-> plugin_id]

map_insert(m, k, v) == [i \in DOMAIN m \cup {k} |-> IF i = k THEN v ELSE m[i]]
map_remove(m, ks) == [i \in DOMAIN m \ ks |-> m[i]]
map_get_or_default(m, k) == IF k \in DOMAIN m THEN m[k] ELSE <<>>
retain_not(ids, action_id) == SelectSeq(ids, LAMBDA id : id # action_id)
Elems(q) == {q[i] : i \in 1..Len(q)}

register_action_err(r, action) ==
    IF action.id = <<>> \/ ~is_valid_action_id(action.id) THEN "InvalidActionId"
    ELSE IF action.id \in DOMAIN r.actions THEN "ActionExists"
    ELSE "Ok"
(* variant: the owner's list is extended before the duplicate check *)
register_action_tracking_first(r, action) ==
    IF register_action_err(r, action) = "InvalidActionId" THEN r
    ELSE LET tracked == [r EXCEPT !.plugin_actions =
                            map_insert(@, action.plugin_id,
                                       Append(map_get_or_default(@, action.plugin_id), action.id))]
         IN IF register_action_err(r, action) = "ActionExists" THEN tracked
            ELSE [tracked EXCEPT !.actions = map_insert(@, action.id, action)]
register_action(r, action) ==
    IF register_action_err(r, action) # "Ok" THEN r
    ELSE [r EXCEPT !.actions = map_insert(@, action.id, action),
                   !.plugin_actions =
                       map_insert(@, action.plugin_id,
                                  Append(map_get_or_default(@, action.plugin_id), action.id))]

unregister_action_err(r, action_id) ==
    IF action_id \in DOMAIN r.actions THEN "Ok" ELSE "ActionNotFound"
(* variant: the action leaves the id map but stays in its plugin's list *)
unregister_action_keeping_index(r, action_id) ==
    IF unregister_action_err(r, action_id) # "Ok" THEN r
    ELSE [r EXCEPT !.actions = map_remove(@, {action_id})]
unregister_action(r, action_id) ==
    IF unregister_action_err(r, action_id) # "Ok" THEN r
    ELSE LET action == r.actions[action_id]
             removed == [r EXCEPT !.actions = map_remove(@, {action_id})]
         IN IF action.plugin_id \in DOMAIN removed.plugin_actions
            THEN LET plugin_actions == retain_not(removed.plugin_actions[action.plugin_id], action_id)
                 IN IF plugin_actions = <<>>
                    THEN [removed EXCEPT !.plugin_actions = map_remove(@, {action.plugin_id})]
                    ELSE [removed EXCEPT !.plugin_actions[action.plugin_id] = plugin_actions]
            ELSE removed

(* variant: the plugin's key stays, with an empty list *)
unregister_plugin_actions_keeping_key(r, plugin_id) ==
    LET action_ids == map_get_or_default(r.plugin_actions, plugin_id)
    IN [r EXCEPT !.plugin_actions = IF plugin_id \in DOMAIN @ THEN [@ EXCEPT ![plugin_id] = <<>>] ELSE @,
                 !.actions = map_remove(@, Elems(action_ids))]
unregister_plugin_actions(r, plugin_id) ==
    LET action_ids == map_get_or_default(r.plugin_actions, plugin_id)
    IN [r EXCEPT !.plugin_actions = map_remove(@, {plugin_id}),
                 !.actions = map_remove(@, Elems(action_ids))]

execute_action_err(r, action_id) ==
    IF action_id \in DOMAIN r.actions THEN "Ok" ELSE "ActionNotFound"
execute_action(r, action_id) == r

action_count(r) == Cardinality(DOMAIN r.actions)
plugin_count(r) == Cardinality(DOMAIN r.plugin_actions)

(* the calls the application makes on the registry *)
RegistryIds == {<<"x", ".", "a">>, <<"x", ".", "b">>, <<"y", ".", "a">>, <<"x">>}
PluginIds == {"x", "y"}
ActionNames == {"N1", "N2"}
RECURSIVE StringsUpTo(_, _)
StringsUpTo(chars, n) ==
    IF n = 0 THEN {<<>>}
    ELSE LET shorter == StringsUpTo(chars, n - 1)
         IN shorter \cup {Append(s, c) : s \in shorter, c \in chars}
AnyIds == StringsUpTo(IdChars, MaxIdLen)

(* a call on the registry: its outcome, and action_count() before it, are kept in call *)
RegistryCalled(r, op, id, plugin_id, value) ==
    [r EXCEPT !.call = [seq |-> 1 - registry.call.seq, op |-> op, id |-> id,
                        plugin_id |-> plugin_id, value |-> value,
                        count_before |-> Cardinality(DOMAIN registry.actions)]]
RegistryStep(r) ==
    /\ registry' = r
    /\ UNCHANGED <<grid, panicked, last_op, script, pty, host, atlas, term>>

RegisterAction ==
    \E id \in RegistryIds, plugin_id \in PluginIds, name \in ActionNames :
        LET action == Action_new(id, name, plugin_id)
        IN RegistryStep(RegistryCalled(register_action(registry, action), "register_action",
                                       id, plugin_id, register_action_err(registry, action)))
(* register_action with any id as the first call on a new registry, and with a *)
(* registered id afterwards                                                     *)
RegisterAnyId ==
    \E id \in (IF registry.call.op = "none" THEN AnyIds ELSE DOMAIN registry.actions) :
        LET action == Action_new(id, "N1", "x")
        IN RegistryStep(RegistryCalled(register_action(registry, action), "register_action",
                                       id, "x", register_action_err(registry, action)))
UnregisterAction ==
    \E id \in RegistryIds \cup DOMAIN registry.actions :
        RegistryStep(RegistryCalled(unregister_action(registry, id), "unregister_action",
                                    id, "none", unregister_action_err(registry, id)))
UnregisterPluginActions ==
    \E plugin_id \in PluginIds :
        RegistryStep(RegistryCalled(unregister_plugin_actions(registry, plugin_id),
                                    "unregister_plugin_actions", <<>>, plugin_id, "Ok"))
ExecuteAction ==
    \E id \in RegistryIds :
        RegistryStep(RegistryCalled(execute_action(registry, id), "execute_action",
                                    id, "none", execute_action_err(registry, id)))

InitRegistry ==
    /\ grid = with_scrollback(1, 1, 0)
    /\ panicked = FALSE
    /\ last_op = NoOp
    /\ script = <<>>
    /\ OthersIdle

NextRegistry == RegisterAction \/ UnregisterAction \/ UnregisterPluginActions \/ ExecuteAction
SpecRegistry == InitRegistry /\ [][NextRegistry]_vars

NextActionId == RegisterAnyId \/ UnregisterAction
SpecActionId == InitRegistry /\ [][NextActionId]_vars

(* ======================= glyph atlas: packing and caching ======================= *)
Shelf(x, y, width, height, used_width) ==
    [x |-> x, y |-> y, width |-> width, height |-> height, used_width |-> used_width]
AtlasRegion(x, y, width, height) == [x |-> x, y |-> y, width |-> width, height |-> height]

(* variant: a shelf is taken whatever its height *)
shelf_fits_any_height(shelf, width, height) ==
    shelf.used_width + width <= shelf.width
shelf_fits(shelf, width, height) ==
    shelf.used_width + width <= shelf.width /\ height <= shelf.height

(* the atlas after the search, and Some(position) or None when the atlas is full *)
find_space(a, width, height) ==
    LET fitting == {i \in 1..Len(a.shelves) : shelf_fits(a.shelves[i], width, height)}
    IN IF fitting # {}
       THEN LET i == CHOOSE k \in fitting : \A j \in fitting : k <= j
                shelf == a.shelves[i]
            IN [atlas |-> [a EXCEPT !.shelves[i].used_width = @ + width],
                position |-> Some(<<shelf.x + shelf.used_width, shelf.y>>)]
       ELSE IF a.current_y + height <= a.height
       THEN [atlas |-> [a EXCEPT !.current_y = @ + height,
                                 !.shelves = Append(@, Shelf(0, a.current_y, a.width, height, width))],
             position |-> Some(<<0, a.current_y>>)]
       ELSE [atlas |-> a, position |-> None]

(* outline is None when the font has no outline for the glyph, else Some(<<w, h>>), *)
(* the sides of its pixel bounds                                                   *)
rasterize_and_pack(a, outline) ==
    IF outline = None THEN [atlas |-> a, region |-> None]
    ELSE LET padded_width == outline[1][1] + a.padding * 2
             padded_height == outline[1][2] + a.padding * 2
             found == find_space(a, padded_width, padded_height)
         IN IF found.position = None THEN [atlas |-> found.atlas, region |-> None]
            ELSE [atlas |-> found.atlas,
                  region |-> Some(AtlasRegion(found.position[1][1], found.position[1][2],
                                              padded_width, padded_height))]

(* LruCache: peek leaves the order alone, get makes the entry the most recent one, *)
(* push adds an entry as the most recent one and hands back what it displaced      *)
lru_index(cache, key) == {i \in 1..Len(cache) : cache[i].key = key}
lru_without(cache, key) == SelectSeq(cache, LAMBDA e : e.key # key)
lru_peek(cache, key) == cache
lru_get(cache, key) ==
    IF lru_index(cache, key) = {} THEN cache
    ELSE Append(lru_without(cache, key), cache[CHOOSE i \in lru_index(cache, key) : TRUE])
lru_push(cache, capacity, key, region) ==
    LET entry == [key |-> key, region |-> region]
    IN IF lru_index(cache, key) # {}
       THEN [cache |-> Append(lru_without(cache, key), entry), old |-> Some(key)]
       ELSE IF Len(cache) >= capacity
       THEN [cache |-> Append(Tail(cache), entry), old |-> Some(Head(cache).key)]
       ELSE [cache |-> Append(cache, entry), old |-> None]

get_or_rasterize(a, glyph_key, outline) ==
    IF lru_index(a.glyph_cache, glyph_key) # {}
    THEN [atlas |-> [a EXCEPT !.glyph_cache = lru_get(@, glyph_key)], value |-> "hit", evicted |-> None]
    ELSE LET packed == rasterize_and_pack(a, outline)
         IN IF packed.region = None
            THEN [atlas |-> packed.atlas, value |-> "Err", evicted |-> None]
            ELSE LET pushed == lru_push(packed.atlas.glyph_cache, packed.atlas.capacity,
                                        glyph_key, packed.region[1])
                 IN [atlas |-> [packed.atlas EXCEPT !.glyph_cache = pushed.cache],
                     value |-> "miss", evicted |-> pushed.old]

allocate_glyph(a, width, height) ==
    LET found == find_space(a, width, height)
    IN [atlas |-> found.atlas,
        region |-> IF found.position = None THEN None
                   ELSE Some(AtlasRegion(found.position[1][1], found.position[1][2], width, height))]

atlas_clear(a) == [a EXCEPT !.glyph_cache = <<>>, !.shelves = <<>>, !.current_y = 0]

(* the calls the renderer makes on the atlas *)
GlyphKeys == 1..MaxGlyphs
Outlines == {None} \cup {Some(<<w, h>>) : w \in 1..MaxGlyphSide, h \in 0..MaxGlyphSide}
AllocSizes == {<<3, 3>>, <<3, 0>>, <<AtlasWidth + 1, 3>>}
(* accessed: the cached keys in the order of their last access, a cache hit or an *)
(* insertion; inserted: the cached keys in the order of their insertion            *)
touch(accessed, key, evicted) ==
    Append(SelectSeq(accessed, LAMBDA k : k # key /\ <<k>> # evicted), key)

AtlasStep(a) ==
    /\ atlas' = a
    /\ UNCHANGED <<grid, panicked, last_op, script, pty, host, registry, term>>
(* a call on the atlas: its outcome, and the cached key that had been inserted first *)
(* before it, are kept in call                                                       *)
AtlasCalled(a, op, key, value, evicted) ==
    [a EXCEPT !.call = [seq |-> 1 - atlas.call.seq, op |-> op, key |-> key,
                        value |-> value, evicted |-> evicted,
                        first_inserted |-> IF atlas.inserted = <<>> THEN 0 ELSE atlas.inserted[1]]]

GetOrRasterize ==
    \E glyph_key \in GlyphKeys, outline \in Outlines :
        LET res == get_or_rasterize(atlas, glyph_key, outline)
            a == IF res.value = "Err" THEN res.atlas
                 ELSE [res.atlas EXCEPT !.accessed = touch(@, glyph_key, res.evicted),
                                        !.inserted = IF res.value = "hit" THEN @
                                                     ELSE touch(@, glyph_key, res.evicted)]
        IN /\ Len(res.atlas.shelves) <= MaxShelves
           /\ AtlasStep(AtlasCalled(a, "get_or_rasterize", glyph_key, res.value,
                                 IF res.evicted = None THEN 0 ELSE res.evicted[1]))
AllocateGlyph ==
    \E size \in AllocSizes :
        LET res == allocate_glyph(atlas, size[1], size[2])
        IN /\ Len(res.atlas.shelves) <= MaxShelves
           /\ AtlasStep(AtlasCalled(res.atlas, "allocate_glyph", 0,
                                 IF res.region = None THEN "Err" ELSE "Ok", 0))
ClearAtlas ==
    LET cleared == [atlas_clear(atlas) EXCEPT !.accessed = <<>>, !.inserted = <<>>]
    IN /\ atlas' = AtlasCalled(cleared, "clear", 0, "Ok", 0)
       /\ UNCHANGED <<grid, panicked, last_op, script, pty, host, registry, term>>

InitAtlas ==
    /\ grid = with_scrollback(1, 1, 0)
    /\ panicked = FALSE
    /\ last_op = NoOp
    /\ script = <<>>
    /\ OthersIdle

NextAtlas == GetOrRasterize \/ AllocateGlyph \/ ClearAtlas
SpecAtlas == InitAtlas /\ [][NextAtlas]_vars

(* ======================= VT parser: SGR state ======================= *)
attrs_contains(attrs, flag) == (attrs \div flag) % 2 = 1
attrs_insert(attrs, flag) == IF attrs_contains(attrs, flag) THEN attrs ELSE attrs + flag
attrs_remove(attrs, flag) == IF attrs_contains(attrs, flag) THEN attrs - flag ELSE attrs
(* `v as u8` for a u16 *)
as_u8(v) == v % 256

standard_color(index) ==
    CASE index = 0 -> Color_rgb(0, 0, 0)
      [] index = 1 -> Color_rgb(128, 0, 0)
      [] index = 2 -> Color_rgb(0, 128, 0)
      [] index = 3 -> Color_rgb(128, 128, 0)
      [] index = 4 -> Color_rgb(0, 0, 128)
      [] index = 5 -> Color_rgb(128, 0, 128)
      [] index = 6 -> Color_rgb(0, 128, 128)
      [] index = 7 -> Color_rgb(192, 192, 192)
      [] OTHER -> DEFAULT_FG
bright_color(index) ==
    CASE index = 0 -> Color_rgb(128, 128, 128)
      [] index = 1 -> Color_rgb(255, 0, 0)
      [] index = 2 -> Color_rgb(0, 255, 0)
      [] index = 3 -> Color_rgb(255, 255, 0)
      [] index = 4 -> Color_rgb(0, 0, 255)
      [] index = 5 -> Color_rgb(255, 0, 255)
      [] index = 6 -> Color_rgb(0, 255, 255)
      [] index = 7 -> Color_rgb(255, 255, 255)
      [] OTHER -> DEFAULT_FG
color_256(index) ==
    CASE index \in 0..7 -> standard_color(index)
      [] index \in 8..15 -> bright_color(index - 8)
      [] index \in 16..231 ->
            LET i == index - 16
            IN Color_rgb(as_u8((i \div 36) * 51), as_u8(((i % 36) \div 6) * 51), as_u8((i % 6) * 51))
      [] index \in 232..255 ->
            LET gray == 8 + (index - 232) * 10
            IN Color_rgb(as_u8(gray), as_u8(gray), as_u8(gray))
      [] OTHER -> DEFAULT_FG

(* None, or Some(<<color, consumed>>) *)
parse_extended_color(params) ==
    IF Len(params) < 2 THEN None
    ELSE CASE params[2] = 5 ->
                IF Len(params) < 3 THEN None ELSE Some(<<color_256(params[3]), 2>>)
           [] params[2] = 2 ->
                IF Len(params) < 5 THEN None
                ELSE Some(<<Color_rgb(Min(as_u8(params[3]), 255), Min(as_u8(params[4]), 255),
                                      Min(as_u8(params[5]), 255)), 4>>)
           [] OTHER -> None

(* variant: the background survives a reset *)
ParserState_reset_keeping_bg(s) == [s EXCEPT !.fg_color = DEFAULT_FG, !.attrs = CellAttrs_empty]
ParserState_reset(s) ==
    [s EXCEPT !.fg_color = DEFAULT_FG, !.bg_color = DEFAULT_BG, !.attrs = CellAttrs_empty]

(* one turn of the while loop of apply_sgr at index i: the state and the next index *)
apply_sgr_param(s, params, i) ==
    LET p == params[i + 1]
        rest_params == SubSeq(params, i + 1, Len(params))
        extended == parse_extended_color(rest_params)
    IN CASE p = 0 -> <<ParserState_reset(s), i + 1>>
         [] p = 1 -> <<[s EXCEPT !.attrs = attrs_insert(@, BOLD)], i + 1>>
         [] p = 2 -> <<[s EXCEPT !.attrs = attrs_remove(@, BOLD)], i + 1>>
         [] p = 3 -> <<[s EXCEPT !.attrs = attrs_insert(@, ITALIC)], i + 1>>
         [] p = 4 -> <<[s EXCEPT !.attrs = attrs_insert(@, UNDERLINE)], i + 1>>
         [] p = 5 -> <<[s EXCEPT !.attrs = attrs_insert(@, BLINK)], i + 1>>
         [] p = 7 -> <<[s EXCEPT !.attrs = attrs_insert(@, REVERSE)], i + 1>>
         [] p = 9 -> <<[s EXCEPT !.attrs = attrs_insert(@, STRIKETHROUGH)], i + 1>>
         [] p = 22 -> <<[s EXCEPT !.attrs = attrs_remove(@, BOLD)], i + 1>>
         [] p = 23 -> <<[s EXCEPT !.attrs = attrs_remove(@, ITALIC)], i + 1>>
         [] p = 24 -> <<[s EXCEPT !.attrs = attrs_remove(@, UNDERLINE)], i + 1>>
         [] p = 25 -> <<[s EXCEPT !.attrs = attrs_remove(@, BLINK)], i + 1>>
         [] p = 27 -> <<[s EXCEPT !.attrs = attrs_remove(@, REVERSE)], i + 1>>
         [] p = 29 -> <<[s EXCEPT !.attrs = attrs_remove(@, STRIKETHROUGH)], i + 1>>
         [] p \in 30..37 -> <<[s EXCEPT !.fg_color = standard_color(p - 30)], i + 1>>
         [] p = 38 -> IF extended = None THEN <<s, i + 1>>
                      ELSE <<[s EXCEPT !.fg_color = extended[1][1]], i + extended[1][2] + 1>>
         [] p = 39 -> <<[s EXCEPT !.fg_color = DEFAULT_FG], i + 1>>
         [] p \in 40..47 -> <<[s EXCEPT !.bg_color = standard_color(p - 40)], i + 1>>
         [] p = 48 -> IF extended = None THEN <<s, i + 1>>
                      ELSE <<[s EXCEPT !.bg_color = extended[1][1]], i + extended[1][2] + 1>>
         [] p = 49 -> <<[s EXCEPT !.bg_color = DEFAULT_BG], i + 1>>
         [] p \in 90..97 -> <<[s EXCEPT !.fg_color = bright_color(p - 90)], i + 1>>
         [] p \in 100..107 -> <<[s EXCEPT !.bg_color = bright_color(p - 100)], i + 1>>
         [] OTHER -> <<s, i + 1>>
RECURSIVE apply_sgr_from(_, _, _)
apply_sgr_from(s, params, i) ==
    IF i >= Len(params) THEN s
    ELSE LET turn == apply_sgr_param(s, params, i)
         IN apply_sgr_from(turn[1], params, turn[2])
ParserState_apply_sgr(s, params) == apply_sgr_from(s, params, 0)

(* bounds: the parameters of one SGR, and the values tried for a colour channel *)
MaxSgrParams == 2
SgrCodes == {0, 1, 2, 3, 6, 8, 21, 22, 31, 44, 50}
ExtendedSgr == {<<38, 5, 9>>, <<48, 5, 232>>, <<38, 2, 1, 2, 3>>, <<38, 5>>, <<48, 2, 1, 2>>}
ChannelValues == {0, 1, 255, 256, 300, 65535}
SgrParamLists ==
    {<<>>} \cup ExtendedSgr
        \cup UNION {[1..n -> SgrCodes] : n \in 1..MaxSgrParams}
DirectColours == {<<lead, 2, r, g, b>> : lead \in {38, 48},
                                          r \in ChannelValues, g \in ChannelValues, b \in ChannelValues}

TermStep(t) ==
    /\ term' = t
    /\ UNCHANGED <<grid, panicked, last_op, script, pty, host, registry, atlas>>
SgrApplied(t, params) ==
    [t EXCEPT !.parser.state = ParserState_apply_sgr(@, params),
              !.call = [seq |-> 1 - t.call.seq, params |-> params,
                        was_default |-> t.parser.state = ParserState_default]]

ApplySgr ==
    \E params \in SgrParamLists :
        /\ term' = SgrApplied(term, params)
        /\ UNCHANGED <<grid, panicked, last_op, script, pty, host, registry, atlas>>
(* a direct-colour SGR on a parser whose state is the default one *)
ApplyDirectColour ==
    /\ term.parser.state = ParserState_default
    /\ \E params \in DirectColours : TermStep(SgrApplied(term, params))
(* TerminalParser::reset *)
ResetParser ==
    /\ term.parser.state # ParserState_default
    /\ TermStep([term EXCEPT !.parser.state = ParserState_reset(@)])

InitSgr ==
    /\ grid = with_scrollback(1, 1, 0)
    /\ panicked = FALSE
    /\ last_op = NoOp
    /\ script = <<>>
    /\ OthersIdle

NextSgr == ApplySgr \/ ResetParser
SpecSgr == InitSgr /\ [][NextSgr]_vars
NextColour == ApplyDirectColour \/ ResetParser
SpecColour == InitSgr /\ [][NextColour]_vars

(* ============ a scripted session: TerminalGrid::new(5, 3), the letters ============ *)
(* ============ A..H printed in order, and one resize at any moment      ============ *)
ScriptText == <<65, 66, 67, 68, 69, 70, 71, 72>>
ScriptDims == {<<c, r>> : c \in 1..ScriptCols, r \in 1..ScriptRows}
Printed(q) == Cardinality({i \in 1..Len(q) : q[i][1] = "print_char"})
Resized(q) == Cardinality({i \in 1..Len(q) : q[i][1] = "resize"})

TerminalGrid_new(cols, rows) == with_scrollback(cols, rows, DefaultScrollback)

ScriptPrint ==
    /\ ~panicked
    /\ Printed(script) < Len(ScriptText)
    /\ LET c == ScriptText[Printed(script) + 1]
       IN /\ grid' = print_char(grid, c)
          /\ last_op' = Op("print_char", "none", on_last_col(grid) /\ on_last_row(grid))
          /\ script' = Append(script, <<"print_char", c, 0>>)
    /\ UNCHANGED <<panicked, others>>

ScriptResize ==
    /\ ~panicked
    /\ Resized(script) = 0
    /\ \E d \in ScriptDims :
          /\ grid' = resize(grid, d[1], d[2])
          /\ last_op' = Op("resize", cols_branch(grid, d[1]), FALSE)
          /\ script' = Append(script, <<"resize", d[1], d[2]>>)
    /\ UNCHANGED <<panicked, others>>

InitScript ==
    /\ grid = TerminalGrid_new(ScriptCols, ScriptRows)
    /\ panicked = FALSE
    /\ last_op = NoOp
    /\ script = <<>>
    /\ OthersIdle

NextScript == ScriptPrint \/ ScriptResize

SpecScript == InitScript /\ [][NextScript]_vars

(* the glyphs of the stored rows, row-major *)
Glyphs(g) == [i \in 1..Len(g.scrollback) |->
                [j \in 1..Len(g.scrollback[i]) |-> g.scrollback[i][j].glyph_id]]

(* ======================= VT parser and grid: bytes to cells ======================= *)
(* The bytes the texts below are made of. *)
ESC == 27
LBRACKET == 91
SEMICOLON == 59
FINAL_m == 109
FINAL_H == 72
FINAL_c == 99

(* ParseAction: Print(c), Execute(byte), CsiDispatch(Sgr(params)),                  *)
(* CsiDispatch(Other{command, params}), EscDispatch(Reset), EscDispatch(Other(c)).  *)
ParseAction(tag, c, params) == [tag |-> tag, c |-> c, params |-> params]

(* impl Perform for ParsePerformer; pf is the performer: its state and its actions *)
perform_print(pf, c) == [pf EXCEPT !.actions = Append(@, ParseAction("Print", c, <<>>))]
perform_execute(pf, byte) == [pf EXCEPT !.actions = Append(@, ParseAction("Execute", byte, <<>>))]
csi_dispatch(pf, params_vec, c) ==
    IF c = FINAL_m
    THEN [pf EXCEPT !.state = ParserState_apply_sgr(@, params_vec),
                    !.actions = Append(@, ParseAction("Sgr", c, params_vec))]
    ELSE [pf EXCEPT !.actions = Append(@, ParseAction("Other", c, params_vec))]
esc_dispatch(pf, byte) ==
    IF byte = FINAL_c
    THEN [pf EXCEPT !.state = ParserState_reset(@),
                    !.actions = Append(@, ParseAction("Reset", byte, <<>>))]
    ELSE [pf EXCEPT !.actions = Append(@, ParseAction("EscOther", byte, <<>>))]

(* vte::Parser::advance, one byte: the ground, escape and CSI-parameter states of   *)
(* the VT500 state machine for the bytes fed here (C0 controls, printable ASCII,    *)
(* ESC, '[', digits, ';' and final bytes). v is the vte parser, pf the performer.   *)
vte_advance_byte(v, pf, byte) ==
    CASE byte = ESC ->
            [v |-> [v EXCEPT !.state = "Escape"], pf |-> pf]
      [] byte # ESC /\ v.state = "Ground" ->
            [v |-> v,
             pf |-> IF byte < 32 THEN perform_execute(pf, byte)
                    ELSE IF byte < 127 THEN perform_print(pf, byte) ELSE pf]
      [] byte # ESC /\ v.state = "Escape" ->
            IF byte = LBRACKET
            THEN [v |-> [state |-> "Csi", params |-> <<>>, param |-> 0], pf |-> pf]
            ELSE IF byte >= 48 /\ byte < 127
            THEN [v |-> [v EXCEPT !.state = "Ground"], pf |-> esc_dispatch(pf, byte)]
            ELSE [v |-> v, pf |-> pf]
      [] OTHER ->
            IF byte >= 48 /\ byte <= 57
            THEN [v |-> [v EXCEPT !.param = Min(v.param * 10 + (byte - 48), U16 - 1)], pf |-> pf]
            ELSE IF byte = SEMICOLON
            THEN [v |-> [v EXCEPT !.params = Append(@, v.param), !.param = 0], pf |-> pf]
            ELSE IF byte >= 64 /\ byte < 127
            THEN [v |-> [state |-> "Ground", params |-> <<>>, param |-> 0],
                  pf |-> csi_dispatch(pf, Append(v.params, v.param), byte)]
            ELSE [v |-> v, pf |-> pf]

RECURSIVE vte_advance(_, _, _)
vte_advance(v, pf, data) ==
    IF data = <<>> THEN [v |-> v, pf |-> pf]
    ELSE LET r == vte_advance_byte(v, pf, Head(data))
         IN vte_advance(r.v, r.pf, Tail(data))

(* TerminalParser::parse: the actions of one chunk, and the parser whose state is   *)
(* the performer's state at the END of the chunk                                    *)
parse(p, data) ==
    LET performer == [state |-> p.state, actions |-> <<>>]
        r == vte_advance(p.parser, performer, data)
    IN [parser |-> [parser |-> r.v, state |-> r.pf.state], actions |-> r.pf.actions]

(* The step from the parser's CsiAction::Other{command, params} to the grid's       *)
(* quantaterm_core::CsiAction: cursor position is (row, col), 1-based on the wire,  *)
(* 0-based after the decrement.                                                     *)
csi_to_core(command, params) ==
    IF command = FINAL_H /\ Len(params) >= 2
    THEN [tag |-> "CursorPosition",
          row |-> saturating_sub(params[1], 1), col |-> saturating_sub(params[2], 1)]
    ELSE [tag |-> "Other"]

(* the loop of test_sgr_integration over the actions of one parse call: `state` is  *)
(* parser.state(), read after parse has returned                                    *)
RECURSIVE apply_actions(_, _, _)
apply_actions(g, actions, state) ==
    IF actions = <<>> THEN g
    ELSE LET a == Head(actions)
             g1 == CASE a.tag = "Print" ->
                           print_char(apply_sgr(g, state.fg_color, state.bg_color, state.attrs), a.c)
                      [] a.tag = "Sgr" ->
                           apply_sgr(g, state.fg_color, state.bg_color, state.attrs)
                      [] a.tag = "Other" ->
                           handle_csi_action(g, csi_to_core(a.c, a.params))
                      [] OTHER -> g
         IN apply_actions(g1, Tail(actions), state)

TermCols == 20
TermRows == 5
MaxParts == 4

(* decimal digits of n, as bytes *)
RECURSIVE Digits(_)
Digits(n) == IF n < 10 THEN <<48 + n>> ELSE Append(Digits(n \div 10), 48 + (n % 10))

(* ESC [ 1 ; 3 1 m R e d ESC [ 0 m ' ' X *)
SgrText == <<ESC, LBRACKET, 49, SEMICOLON, 51, 49, FINAL_m, 82, 101, 100,
             ESC, LBRACKET, 48, FINAL_m, 32, 88>>
(* where SgrText is cut when it is split at its escape-sequence boundaries *)
SgrBoundaries == {7, 10, 14}
(* a b ESC [ row ; col H *)
CupText(row, col) ==
    <<97, 98, ESC, LBRACKET>> \o Digits(row) \o <<SEMICOLON>> \o Digits(col) \o <<FINAL_H>>
CupRows == {1, 3, 5, 6, 12}
CupCols == {1, 4, 20, 21}
TermTexts == {SgrText} \cup {CupText(row, col) : row \in CupRows, col \in CupCols}

(* a new parser and a new grid, and the bytes to feed them *)
StartText ==
    /\ term.fed = Len(term.text)
    /\ \E text \in TermTexts :
        /\ term' = [Term_new EXCEPT !.text = text]
        /\ grid' = TerminalGrid_new(TermCols, TermRows)
    /\ UNCHANGED <<panicked, last_op, script, pty, host, registry, atlas>>

(* one parser.parse(part) and the loop over its actions; the part is the next n bytes *)
FeedChunk ==
    /\ term.fed < Len(term.text)
    /\ \E n \in 1..(Len(term.text) - term.fed) :
        /\ Cardinality(term.cuts) < MaxParts - 1 \/ term.fed + n = Len(term.text)
        /\ LET res == parse(term.parser, SubSeq(term.text, term.fed + 1, term.fed + n))
           IN /\ grid' = apply_actions(grid, res.actions, res.parser.state)
              /\ term' = [term EXCEPT !.parser = res.parser,
                                      !.fed = term.fed + n,
                                      !.cuts = IF term.fed + n < Len(term.text)
                                               THEN @ \cup {term.fed + n} ELSE @]
    /\ UNCHANGED <<panicked, last_op, script, pty, host, registry, atlas>>

InitTerm ==
    /\ grid = TerminalGrid_new(TermCols, TermRows)
    /\ panicked = FALSE
    /\ last_op = NoOp
    /\ script = <<>>
    /\ OthersIdle

NextTerm == StartText \/ FeedChunk
SpecTerm == InitTerm /\ [][NextTerm]_vars

(* ======================= the grid's text selection ======================= *)
(* `script` records the calls since the last start_selection, by the clamped   *)
(* positions they were given: <<clamp(a)>> after start_selection(a),           *)
(* <<clamp(a), clamp(p)>> once extend_selection(p) was the latest call; any    *)
(* other call empties it.                                                      *)
SelPositions == {Position_new(c, r) : c \in 0..MaxCols, r \in 0..MaxRows}
SelCells == {Cell_new(65), Cell_empty}

StartSelection ==
    \E p \in SelPositions :
        /\ grid' = start_selection(grid, p)
        /\ last_op' = Op("start_selection", "none", FALSE)
        /\ script' = <<clamp_position(grid, p)>>
        /\ UNCHANGED <<panicked, others>>
ExtendSelection ==
    \E p \in SelPositions :
        /\ grid' = extend_selection(grid, p)
        /\ last_op' = Op("extend_selection", "none", FALSE)
        /\ script' = IF grid.selection = None THEN <<clamp_position(grid, p)>>
                     ELSE IF script = <<>> THEN <<>>
                     ELSE <<script[1], clamp_position(grid, p)>>
        /\ UNCHANGED <<panicked, others>>
SelectAll ==
    /\ grid' = select_all(grid)
    /\ last_op' = Op("select_all", "none", FALSE)
    /\ script' = <<>>
    /\ UNCHANGED <<panicked, others>>
SelectWordAt ==
    \E p \in SelPositions :
        /\ grid' = select_word_at(grid, p)
        /\ last_op' = Op("select_word_at", "none", FALSE)
        /\ script' = <<>>
        /\ UNCHANGED <<panicked, others>>
ClearSelection ==
    /\ grid.selection # None
    /\ grid' = clear_selection(grid)
    /\ last_op' = Op("clear_selection", "none", FALSE)
    /\ script' = <<>>
    /\ UNCHANGED <<panicked, others>>
SelResize ==
    \E d \in Dims :
        /\ d # <<grid.cols, grid.rows>>
        /\ Ink(resize(grid, d[1], d[2])) <= MaxInk
        /\ grid' = resize(grid, d[1], d[2])
        /\ last_op' = Op("resize", cols_branch(grid, d[1]), FALSE)
        /\ script' = <<>>
        /\ UNCHANGED <<panicked, others>>
SelSetCell ==
    \E col \in 0..(MaxCols - 1), row \in 0..(MaxRows - 1), cell \in SelCells :
        /\ set_cell_ok(grid, col, row)
        /\ Ink(set_cell(grid, col, row, cell)) <= MaxInk
        /\ grid' = set_cell(grid, col, row, cell)
        /\ last_op' = Op("set_cell", "none", FALSE)
        /\ script' = <<>>
        /\ UNCHANGED <<panicked, others>>

InitSelect ==
    /\ \E d \in Dims : grid = TerminalGrid_new(d[1], d[2])
    /\ panicked = FALSE
    /\ last_op = NoOp
    /\ script = <<>>
    /\ OthersIdle

NextSelect ==
    \/ StartSelection \/ ExtendSelection \/ SelectAll \/ SelectWordAt
    \/ ClearSelection \/ SelSetCell
SpecSelect == InitSelect /\ [][NextSelect]_vars
(* the selection calls on a grid that is resized between them *)
NextSelResize ==
    \/ StartSelection \/ ExtendSelection \/ SelectAll \/ ClearSelection \/ SelResize
SpecSelResize == InitSelect /\ [][NextSelResize]_vars

(* ======================= resize, step by step ======================= *)
(* rewrap_lines as the loops it is made of. While a resize that rewraps is       *)
(* running, `script` holds one record with the locals of rewrap_lines: the rows  *)
(* not yet drained, the content still to flow, the rows built so far and the     *)
(* arguments of the call; `turn` flips at every turn of the while loop.          *)
(* new_rows keeps at most MaxFlowRows rows: a row past that is not recorded.     *)
MaxFlowRows == 8
MaxFlowHeight == 3
push_row(new_rows, row) ==
    IF Len(new_rows) < MaxFlowRows THEN Append(new_rows, row) ELSE new_rows

(* resize up to the call of rewrap_lines; any other resize returns at once *)
ResizeCall ==
    /\ script = <<>>
    /\ Len(grid.scrollback) <= MaxFlowHeight
    /\ \E d \in Dims0 :
        IF d[1] < grid.cols /\ needs_rewrapping(grid, d[1])
        THEN /\ script' = <<[old_cols |-> grid.cols, old_rows |-> grid.rows,
                             new_cols |-> d[1], rows |-> d[2],
                             drain |-> grid.scrollback, content |-> <<>>,
                             new_rows |-> <<>>, turn |-> 0]>>
             /\ last_op' = Op("resize", "rewrap", FALSE)
             /\ UNCHANGED <<grid, panicked, others>>
        ELSE /\ d # <<grid.cols, grid.rows>>
             /\ grid' = resize(grid, d[1], d[2])
             /\ last_op' = Op("resize", cols_branch(grid, d[1]), FALSE)
             /\ UNCHANGED <<panicked, script, others>>

(* for row in self.scrollback.drain(..): truncate the row, or collect its content *)
RowTurn ==
    /\ script # <<>>
    /\ script[1].content = <<>>
    /\ script[1].drain # <<>>
    /\ LET l == script[1]
           row == Head(l.drain)
       IN script' =
            IF ~content_beyond_width(row, l.new_cols)
            THEN <<[l EXCEPT !.drain = Tail(@),
                             !.new_rows = push_row(@, vec_truncate(row, l.new_cols))]>>
            ELSE <<[l EXCEPT !.drain = Tail(@),
                             !.content = SubSeq(row, 1, last_non_empty(row))]>>
    /\ UNCHANGED <<grid, panicked, last_op, others>>

(* one turn of `while !content.is_empty()` *)
FlowTurn ==
    /\ script # <<>>
    /\ script[1].content # <<>>
    /\ LET l == script[1]
           take_count == Min(l.new_cols, Len(l.content))
           new_row == vec_resize(SubSeq(l.content, 1, take_count), l.new_cols, Cell_empty)
       IN script' = <<[l EXCEPT !.content = SubSeq(@, take_count + 1, Len(@)),
                                !.new_rows = push_row(@, new_row),
                                !.turn = 1 - @]>>
    /\ UNCHANGED <<grid, panicked, last_op, others>>

(* the rest of rewrap_lines and of resize, once every row has been drained *)
ResizeReturn ==
    /\ script # <<>>
    /\ script[1].content = <<>>
    /\ script[1].drain = <<>>
    /\ LET l == script[1]
           padded == IF Len(l.new_rows) < l.rows
                     THEN l.new_rows \o [i \in 1..(l.rows - Len(l.new_rows)) |-> empty_row(l.new_cols)]
                     ELSE l.new_rows
           g1 == [grid EXCEPT !.cols = l.new_cols, !.rows = l.rows, !.scrollback = padded]
           g2 == resize_rows(g1, l.old_rows, l.rows, l.new_cols)
           g3 == limit_scrollback(g2)
       IN grid' = [g3 EXCEPT !.cursor_pos =
                      <<Min(g3.cursor_pos[1], saturating_sub(l.new_cols, 1)),
                        Min(g3.cursor_pos[2], saturating_sub(l.rows, 1))>>]
    /\ script' = <<>>
    /\ UNCHANGED <<panicked, last_op, others>>

(* cells are written between the calls *)
FlowSetCell ==
    /\ script = <<>>
    /\ \E col \in 0..(MaxCols - 1), row \in 0..(MaxRows - 1) :
        /\ set_cell_ok(grid, col, row)
        /\ Ink(set_cell(grid, col, row, Cell_new(65))) <= MaxInk
        /\ grid' = set_cell(grid, col, row, Cell_new(65))
        /\ last_op' = Op("set_cell", "none", FALSE)
        /\ UNCHANGED <<panicked, script, others>>

NextReflow == ResizeCall \/ RowTurn \/ FlowTurn \/ ResizeReturn \/ FlowSetCell
SpecReflow == InitSelect /\ [][NextReflow]_vars
(* a call that has started keeps running: every loop turn that can be taken is taken *)
FairSpecReflow ==
    SpecReflow /\ WF_vars(RowTurn) /\ WF_vars(FlowTurn) /\ WF_vars(ResizeReturn)

(* ======================= properties ======================= *)
(* the cells of a row up to and including its last non-empty cell *)
non_empty_prefix(row) == SubSeq(row, 1, last_non_empty(row))
RECURSIVE Concat(_)
Concat(rows) == IF rows = <<>> THEN <<>> ELSE Head(rows) \o Concat(Tail(rows))
ConcatPrefixes(rows) == Concat([i \in 1..Len(rows) |-> non_empty_prefix(rows[i])])
(* the non-empty cells of all rows, row-major *)
NonEmptyCells(rows) == SelectSeq(Concat(rows), LAMBDA cell : ~Cell_is_empty(cell))
(* the length of the deque after resize has handled the columns, before the rows *)
RowsAfterColumns(g, new_cols, new_rows) ==
    Len(resize_columns([g EXCEPT !.cols = new_cols, !.rows = new_rows], g.cols, new_cols).scrollback)

(* C1: the number of stored rows never exceeds max_scrollback + rows. *)
C1_ScrollbackCap == Len(grid.scrollback) <= grid.max_scrollback + grid.rows
C1_Witness ==
    /\ last_op.name = "add_line"
    /\ grid.max_scrollback >= 1
    /\ Len(grid.scrollback) = grid.max_scrollback + grid.rows

(* C2: every stored row has exactly cols cells. *)
C2_RowWidth == \A i \in 1..Len(grid.scrollback) : Len(grid.scrollback[i]) = grid.cols
C2_Witness ==
    /\ last_op.name = "resize"
    /\ last_op.cols_change = "rewrap"
    /\ Len(grid.scrollback) > grid.rows

(* C3: the cursor stays inside the viewport: col < cols and row < rows. *)
C3_CursorConfined == grid.cursor_pos[1] < grid.cols /\ grid.cursor_pos[2] < grid.rows
C3_Witness ==
    /\ last_op.name = "cursor"
    /\ grid.cols > 1
    /\ grid.rows > 1
    /\ grid.cursor_pos = <<grid.cols - 1, grid.rows - 1>>

(* C4: viewport_offset never exceeds the scrollback available, max(0, total - rows). *)
C4_OffsetBounded == grid.viewport_offset <= Max(0, Len(grid.scrollback) - grid.rows)
C4_Witness ==
    /\ last_op.name = "resize"
    /\ last_op.cols_change # "none"
    /\ grid.viewport_offset > 0

(* C5: after add_line, and after a newline or a print_char wrap that scrolled *)
(* the grid by itself, viewport_offset is 0.                                  *)
C5_PushResetsViewport ==
    (last_op.name = "add_line" \/ last_op.auto_scroll) => grid.viewport_offset = 0

(* C6: a newline on the last viewport row appends one row and drops rows from *)
(* the front only down to max_scrollback + rows, as add_line does.            *)
C6_NewlineKeepsScrollback ==
    [][(last_op'.auto_scroll /\ ~panicked')
          => Len(grid'.scrollback) =
                Min(Len(grid.scrollback) + 1, grid.max_scrollback + grid.rows)]_vars

(* C7 as stated: a reflow that drops no row leaves the concatenation of the *)
(* rows' non-empty prefixes unchanged.                                       *)
C7_PrefixesConserved ==
    [][(/\ last_op'.name = "resize"
        /\ last_op'.cols_change = "rewrap"
        /\ ~panicked'
        /\ grid'.rows = grid.rows
        /\ RowsAfterColumns(grid, grid'.cols, grid'.rows) <= grid.max_scrollback + grid.rows)
          => ConcatPrefixes(grid'.scrollback) = ConcatPrefixes(grid.scrollback)]_vars
(* C7 amended: such a reflow leaves the sequence of non-empty cells, read *)
(* row-major over all rows, unchanged.                                     *)
C7_NonEmptyCellsConserved ==
    [][(/\ last_op'.name = "resize"
        /\ last_op'.cols_change = "rewrap"
        /\ ~panicked'
        /\ grid'.rows = grid.rows
        /\ RowsAfterColumns(grid, grid'.cols, grid'.rows) <= grid.max_scrollback + grid.rows)
          => NonEmptyCells(grid'.scrollback) = NonEmptyCells(grid.scrollback)]_vars
C7_Witness ==
    /\ last_op.name = "resize"
    /\ last_op.cols_change = "rewrap"
    /\ Len(grid.scrollback) <= grid.max_scrollback + grid.rows
    /\ Len(NonEmptyCells(grid.scrollback)) >= 2
    /\ \E i \in 1..Len(grid.scrollback) :
          Cell_is_empty(grid.scrollback[i][grid.cols]) /\ ~Cell_is_empty(grid.scrollback[i][1])

(* C8 as stated: TerminalGrid::new(5, 3), A..H printed, resize(3, 3) stores *)
(* ABC, DEF, GH_.                                                           *)
ScriptABCDEFGH ==
    [i \in 1..9 |-> IF i <= 8 THEN <<"print_char", ScriptText[i], 0>> ELSE <<"resize", 3, 3>>]
C8_ReflowsLogicalLine ==
    script = ScriptABCDEFGH => Glyphs(grid) = <<<<65, 66, 67>>, <<68, 69, 70>>, <<71, 72, SPACE>>>>
(* C8 amended: each stored row is re-flowed by itself: ABC, DE_, FGH, ___. *)
C8_ReflowsEachRow ==
    script = ScriptABCDEFGH
        => Glyphs(grid) = <<<<65, 66, 67>>, <<68, 69, SPACE>>, <<70, 71, 72>>,
                            <<SPACE, SPACE, SPACE>>>>
C8_Witness == script = ScriptABCDEFGH /\ last_op.cols_change = "rewrap"

(* C9 as stated: a resize that shrinks cols with nothing beyond the new width *)
(* leaves every row as its first new_cols cells, no row added or removed.      *)
C9_TruncationKeepsRows ==
    [][(last_op'.name = "resize" /\ last_op'.cols_change = "truncate" /\ ~panicked')
          => /\ Len(grid'.scrollback) = Len(grid.scrollback)
             /\ \A i \in 1..Len(grid.scrollback) :
                   grid'.scrollback[i] = SubSeq(grid.scrollback[i], 1, grid'.cols)]_vars
(* C9 amended: the rows kept are the first new_cols cells of the same rows;  *)
(* the row count changes by new_rows - rows, at the bottom, with empty rows. *)
C9_TruncationKeepsCommonRows ==
    [][(last_op'.name = "resize" /\ last_op'.cols_change = "truncate" /\ ~panicked')
          => /\ Len(grid'.scrollback) = Len(grid.scrollback) + grid'.rows - grid.rows
             /\ \A i \in 1..Len(grid'.scrollback) :
                   grid'.scrollback[i] =
                       IF i <= Len(grid.scrollback)
                       THEN SubSeq(grid.scrollback[i], 1, grid'.cols)
                       ELSE empty_row(grid'.cols)]_vars
C9_Witness ==
    /\ last_op.name = "resize"
    /\ last_op.cols_change = "truncate"
    /\ \E i \in 1..Len(grid.scrollback) : ~Cell_is_empty(grid.scrollback[i][grid.cols])

(* C10: resize(c, r) twice gives the same grid as resize(c, r) once. *)
C10_ResizeIdempotent ==
    \A d \in Dims : resize(resize(grid, d[1], d[2]), d[1], d[2]) = resize(grid, d[1], d[2])
C10_Witness ==
    /\ last_op.name = "resize"
    /\ last_op.cols_change = "rewrap"
    /\ Len(grid.scrollback) = grid.max_scrollback + grid.rows
    /\ grid.cursor_pos # <<0, 0>>

(* C11: a resize with a zero dimension is rejected or clamped: the grid never *)
(* has cols = 0 or rows = 0.                                                  *)
C11_NoZeroDimension == grid.cols >= 1 /\ grid.rows >= 1

(* C12 as stated: from any reachable grid, scroll_up(k) then scroll_down(k), *)
(* with nothing added in between, restores viewport_offset.                  *)
C12_ScrollRoundTrip ==
    \A k \in ScrollArgs :
        scroll_down(scroll_up(grid, k), k).viewport_offset = grid.viewport_offset
(* C12 amended: the offset is restored when scroll_up did not clamp           *)
(* (viewport_offset + k <= max_offset) or the offset was 0; when it clamped,  *)
(* the pair leaves max(0, max_offset - k), which is below the starting offset *)
C12_ScrollRoundTripUnlessClamped ==
    \A k \in ScrollArgs :
        LET max_offset == saturating_sub(Len(grid.scrollback), grid.rows)
            after == scroll_down(scroll_up(grid, k), k).viewport_offset
        IN IF grid.viewport_offset + k <= max_offset \/ grid.viewport_offset = 0
           THEN after = grid.viewport_offset
           ELSE after = Max(0, max_offset - k) /\ after < grid.viewport_offset
C12_Witness ==
    /\ last_op.name = "viewport"
    /\ grid.viewport_offset > 0
    /\ grid.viewport_offset = saturating_sub(Len(grid.scrollback), grid.rows)

(* ---------------- PTY session ---------------- *)
IsPrefix(a, b) == Len(a) <= Len(b) /\ SubSeq(b, 1, Len(a)) = a
DataEvents(events) == SelectSeq(events, LAMBDA ev : ev[1] = "Data")
(* the commands sent before the first Shutdown *)
BeforeShutdown(q) ==
    LET S == {i \in 1..Len(q) : q[i].kind = "Shutdown"}
    IN IF S = {} THEN q ELSE SubSeq(q, 1, (CHOOSE i \in S : \A j \in S : i <= j) - 1)

(* C13: the Data events carry the shell's lines in the order they were read, *)
(* and the ParsedActions of a line comes after its Data and before the Data  *)
(* of the next line.                                                         *)
C13_EventsInByteOrder ==
    /\ \A i \in 1..Len(DataEvents(pty.events)) : DataEvents(pty.events)[i] = PtyEvent_Data(i)
    /\ Len(DataEvents(pty.events)) <= Len(pty.stream)
    /\ \A j \in 1..Len(pty.events) :
          pty.events[j][1] = "ParsedActions"
              => LET i == pty.events[j][2]
                 IN /\ pty.stream[i] = "actions"
                    /\ \E k \in 1..(j - 1) : pty.events[k] = PtyEvent_Data(i)
                    /\ \A k \in 1..(j - 1) : pty.events[k][1] = "Data" => pty.events[k][2] <= i
C13_Witness ==
    /\ Len(DataEvents(pty.events)) = 2
    /\ \E j \in 1..Len(pty.events) : pty.events[j] = PtyEvent_ParsedActions(1)
    /\ \E j \in 1..Len(pty.events) : pty.events[j] = PtyEvent_Error

(* C14: commands are applied in the order sent, up to the first Shutdown or *)
(* the closing of the channel; then the session task terminates, whatever   *)
(* the shell does.                                                          *)
C14_ShutdownTerminates ==
    /\ [](IsPrefix(pty.applied, BeforeShutdown(pty.sent)))
    /\ ((/\ pty.session = "running"
         /\ (~pty.app_alive \/ \E i \in 1..Len(pty.cmds) : pty.cmds[i].kind = "Shutdown"))
           ~> pty.session = "ended")

(* C15: once the child has exited during a running session, ProcessExit is *)
(* sent, once, and the session task ends (if a Shutdown or the closing of  *)
(* the channel does not end it first).                                     *)
C15_ExitReported ==
    /\ [](pty.exits <= 1)
    /\ ((pty.child = "exited" /\ pty.session = "running")
           ~> (pty.session = "ended" /\ (pty.exits = 1 \/ pty.ended_by \in {"Shutdown", "closed"})))

(* C16: a failure to open the PTY or to spawn the shell reaches the application: *)
(* start_shell returned an error or an Error event was sent.                     *)
C16_OpenFailureSurfaced ==
    pty.open_failed
        => \/ pty.start_result = "Err"
           \/ \E j \in 1..Len(pty.events) : pty.events[j] = PtyEvent_Error

(* ---------------- plugin host ---------------- *)
(* the set grants the capability that the string names *)
Granted(capabilities, cap_str) ==
    /\ parse_capability_string(cap_str) # None
    /\ has_capability(capabilities, parse_capability_string(cap_str)[1])

(* C17: host_check_capability returns 1 when the plugin's CapabilitySet grants *)
(* the named capability and 0 when it does not.                                *)
C17_CapabilityCheckHonest ==
    host.call.op = "host_check_capability"
        => /\ host.call.value \in {0, 1}
           /\ host.call.value = 1 <=> Granted(host.capabilities, host.call.arg[1])

(* C18: check_file_access(path, write) is Ok only if the set holds a pattern of *)
(* the matching kind (FileSystemWrite for a write, FileSystemRead for a read)   *)
(* that covers the path.                                                        *)
C18_FileAccessNeedsMatchingGrant ==
    (host.call.op = "check_file_access" /\ host.call.value = "Ok")
        => \E capability \in host.capabilities :
              /\ capability.tag = IF host.call.arg[2] THEN "FileSystemWrite" ELSE "FileSystemRead"
              /\ IF capability.recursive
                 THEN starts_with(host.call.arg[1], capability.pattern)
                 ELSE path_parent(host.call.arg[1]) = capability.pattern
C18_Witness ==
    /\ host.call.op = "check_file_access"
    /\ host.call.value = "Err"
    /\ host.call.arg[2]
    /\ Capability_FileSystemRead(PATH_a, TRUE) \in host.capabilities
    /\ Capability_unit("ConfigWrite") \in host.capabilities
    /\ starts_with(host.call.arg[1], PATH_a)

(* a step that is a call on the plugin host *)
HostCalled == host'.call.seq # host.call.seq

(* C19: a call of execute_plugin_function that itself runs for less than *)
(* max_time is not rejected with Timeout, however long ago the plugin    *)
(* was loaded and whatever happened to earlier calls.                    *)
C19_TimeoutIsPerCall ==
    [][(/\ HostCalled
        /\ host'.call.op = "execute_plugin_function"
        /\ host'.call.d < host.resource_monitor.limits.max_time)
          => host'.call.value # "Timeout"]_vars

(* C20: the handle and connection counts stay within their caps; an add that *)
(* would exceed the cap fails and changes no count; a remove at zero leaves  *)
(* zero.                                                                     *)
C20_CountsWithinCaps ==
    [][LET m == host.resource_monitor
           n == host'.resource_monitor
       IN /\ n.file_handles \in 0..n.limits.max_file_handles
          /\ n.network_connections \in 0..n.limits.max_network_connections
          /\ (HostCalled /\ host'.call.op = "add_file_handle")
                => IF m.file_handles + 1 > m.limits.max_file_handles
                   THEN /\ host'.call.value = "FileHandleLimit"
                        /\ n.file_handles = m.file_handles
                        /\ n.network_connections = m.network_connections
                   ELSE host'.call.value = "Ok" /\ n.file_handles = m.file_handles + 1
          /\ (HostCalled /\ host'.call.op = "add_network_connection")
                => IF m.network_connections + 1 > m.limits.max_network_connections
                   THEN /\ host'.call.value = "NetworkConnectionLimit"
                        /\ n.file_handles = m.file_handles
                        /\ n.network_connections = m.network_connections
                   ELSE host'.call.value = "Ok"
                        /\ n.network_connections = m.network_connections + 1
          /\ (HostCalled /\ host'.call.op = "remove_file_handle" /\ m.file_handles = 0)
                => n.file_handles = 0
          /\ (HostCalled /\ host'.call.op = "remove_network_connection"
                         /\ m.network_connections = 0)
                => n.network_connections = 0]_vars
C20_Witness ==
    /\ host.call.op = "add_file_handle"
    /\ host.call.value = "FileHandleLimit"
    /\ host.resource_monitor.file_handles = MaxFileHandles
    /\ host.resource_monitor.network_connections = MaxConnections

(* ---------------- action registry ---------------- *)
RegistryCalledOp(op) == registry'.call.seq # registry.call.seq /\ registry'.call.op = op
PatternChars == AsciiLetters \cup AsciiDigits \cup {"_", "-"}
(* ^[A-Za-z0-9_-]+\.[A-Za-z0-9_-]+$ *)
MatchesIdPattern(id) ==
    \E i \in 2..(Len(id) - 1) :
        /\ id[i] = "."
        /\ \A j \in (1..Len(id)) \ {i} : id[j] \in PatternChars

(* C21: on a registry that does not hold the id, register_action succeeds exactly *)
(* when the id matches ^[A-Za-z0-9_-]+\.[A-Za-z0-9_-]+$, and every other id is     *)
(* rejected with InvalidActionId                                                   *)
C21_IdFormatExact ==
    [][(RegistryCalledOp("register_action") /\ registry'.call.id \notin DOMAIN registry.actions)
         => /\ (registry'.call.value = "Ok") <=> MatchesIdPattern(registry'.call.id)
            /\ ~MatchesIdPattern(registry'.call.id) => registry'.call.value = "InvalidActionId"]_vars

(* C22: unregister_plugin_actions(p) leaves no action owned by p, and leaves every *)
(* action owned by another plugin present and unchanged                            *)
C22_PluginActionsRemoved ==
    [][RegistryCalledOp("unregister_plugin_actions")
         => LET p == registry'.call.plugin_id
            IN /\ \A id \in DOMAIN registry'.actions : registry'.actions[id].plugin_id # p
               /\ \A id \in DOMAIN registry.actions :
                      registry.actions[id].plugin_id # p
                          => /\ id \in DOMAIN registry'.actions
                             /\ registry'.actions[id] = registry.actions[id]]_vars
C22_Witness ==
    /\ registry.call.op = "unregister_plugin_actions"
    /\ registry.call.plugin_id = "x"
    /\ DOMAIN registry.actions = {<<"y", ".", "a">>}
    /\ registry.actions[<<"y", ".", "a">>].plugin_id = "y"
    /\ registry.call.count_before = 3
    /\ action_count(registry) = 1
    /\ plugin_count(registry) = 1

(* C23: a registry call that fails with ActionExists, InvalidActionId or *)
(* ActionNotFound changes neither the id map nor the plugin index        *)
C23_FailedCallChangesNothing ==
    [][(registry'.call.seq # registry.call.seq
          /\ registry'.call.value \in {"ActionExists", "InvalidActionId", "ActionNotFound"})
         => /\ registry'.actions = registry.actions
            /\ registry'.plugin_actions = registry.plugin_actions]_vars
C23_Witness ==
    /\ registry.call.op = "register_action"
    /\ registry.call.value = "ActionExists"
    /\ registry.call.id \in DOMAIN registry.actions
    /\ plugin_count(registry) = 2

(* ---------------- glyph atlas ---------------- *)
CachedKeys(a) == {a.glyph_cache[i].key : i \in 1..Len(a.glyph_cache)}
Overlap(r1, r2) ==
    /\ r1.x < r2.x + r2.width /\ r2.x < r1.x + r1.width
    /\ r1.y < r2.y + r2.height /\ r2.y < r1.y + r1.height

(* C24: any two regions held in the cache under different GlyphKeys have rectangles *)
(* [x, x+width) x [y, y+height) that do not overlap                                  *)
C24_CachedRegionsDisjoint ==
    \A i, j \in 1..Len(atlas.glyph_cache) :
        atlas.glyph_cache[i].key # atlas.glyph_cache[j].key
            => ~Overlap(atlas.glyph_cache[i].region, atlas.glyph_cache[j].region)
C24_Witness ==
    /\ Len(atlas.glyph_cache) = 2
    /\ atlas.glyph_cache[1].region.y = atlas.glyph_cache[2].region.y
    /\ atlas.glyph_cache[1].region.height # atlas.glyph_cache[2].region.height
    /\ Len(atlas.shelves) >= 2

(* C25: the cache never holds more entries than its capacity, and an insertion into *)
(* a full cache evicts exactly the entry whose last access, a hit or its insertion, *)
(* is the oldest                                                                    *)
LeastRecentlyAccessed(a) == a.accessed[1]
C25_LruBound ==
    /\ [](Len(atlas.glyph_cache) <= atlas.capacity)
    /\ [][(atlas'.call.seq # atlas.call.seq /\ atlas'.call.value = "miss"
            /\ Len(atlas.glyph_cache) = atlas.capacity)
           => /\ atlas'.call.evicted = LeastRecentlyAccessed(atlas)
              /\ CachedKeys(atlas') =
                     (CachedKeys(atlas) \ {LeastRecentlyAccessed(atlas)}) \cup {atlas'.call.key}]_vars
C25_Witness ==
    /\ atlas.call.value = "miss"
    /\ atlas.call.evicted # 0
    /\ Len(atlas.glyph_cache) = atlas.capacity
    /\ atlas.call.evicted # atlas.call.first_inserted
    /\ atlas.call.first_inserted \in CachedKeys(atlas)

(* ---------------- VT parser: SGR ---------------- *)
SgrStep == term'.call.seq # term.call.seq

(* C26: from any parser state, an SGR whose only parameter is 0 leaves the state *)
(* equal to ParserState::default()                                               *)
C26_SgrZeroResets ==
    /\ [](ParserState_apply_sgr(term.parser.state, <<0>>) = ParserState_default)
    /\ [][(SgrStep /\ term'.call.params = <<0>>) => term'.parser.state = ParserState_default]_vars
C26_Witness ==
    /\ term.call.params = <<0>>
    /\ ~term.call.was_default
    /\ term.parser.state = ParserState_default

(* C27: 38;2;R;G;B and 48;2;R;G;B store min(value, 255) in each colour channel *)
Clamped(v) == IF v > 255 THEN 255 ELSE v
C27_ChannelsClamp ==
    [][(SgrStep /\ term'.call.params \in DirectColours)
         => LET params == term'.call.params
                colour == IF params[1] = 38 THEN term'.parser.state.fg_color
                          ELSE term'.parser.state.bg_color
            IN /\ colour[1] = Clamped(params[3])
               /\ colour[2] = Clamped(params[4])
               /\ colour[3] = Clamped(params[5])]_vars

(* C28: an SGR parameter outside the table (0, 1, 3, 4, 5, 7, 9, 22-25, 27, 29, *)
(* 30-39, 40-49, 90-97, 100-107) leaves fg colour, bg colour and attrs as they  *)
(* were                                                                         *)
InSgrTable(p) ==
    p \in {0, 1, 3, 4, 5, 7, 9, 27, 29} \cup (22..25) \cup (30..49) \cup (90..97) \cup (100..107)
C28_UnknownSgrIgnored ==
    [][(SgrStep /\ Len(term'.call.params) = 1 /\ ~InSgrTable(term'.call.params[1]))
         => term'.parser.state = term.parser.state]_vars


(* ---------------- bytes through the parser into the grid ---------------- *)
AllFed == term.fed = Len(term.text)
CellAt(col, row) == get_cell(grid, col, row)[1]
SgrCellsRight ==
    /\ \A col \in 0..2 :
        /\ get_cell(grid, col, 0) # None
        /\ CellAt(col, 0).fg_color = Color_rgb(128, 0, 0)
        /\ attrs_contains(CellAt(col, 0).attrs, BOLD)
    /\ get_cell(grid, 3, 0) # None
    /\ CellAt(3, 0).glyph_id = 32
    /\ CellAt(3, 0).fg_color = DEFAULT_FG
    /\ CellAt(3, 0).bg_color = DEFAULT_BG
    /\ CellAt(3, 0).attrs = CellAttrs_empty

(* C29: once ESC[1;31m R e d ESC[0m ' ' X has been fed whole, in one parse call or *)
(* in parts cut at its escape-sequence boundaries, and the actions applied the     *)
(* tests' way, cells 0..=2 have fg (128,0,0) and BOLD and cell 3, the space, has   *)
(* the default colours and no attributes.                                          *)
C29_SgrTextCells ==
    (term.text = SgrText /\ AllFed /\ term.cuts \in {{}, SgrBoundaries}) => SgrCellsRight

InsideGrid(pos) == pos.col < grid.cols /\ pos.row < grid.rows
AllCellsEmpty ==
    \A i \in 1..Len(grid.scrollback) : \A j \in 1..Len(grid.scrollback[i]) :
        Cell_is_empty(grid.scrollback[i][j])

(* C31: Selection::new(a, b) has start <= end (row first, then column) for any a   *)
(* and b, and the grid's selection, whenever present, has start <= end after any   *)
(* sequence of start_selection, extend_selection, select_all and select_word_at.   *)
C31_SelectionNormalized ==
    /\ \A a \in SelPositions, b \in SelPositions :
          Position_le(Selection_new(a, b).start, Selection_new(a, b).end)
    /\ grid.selection # None =>
          Position_le(grid.selection[1].start, grid.selection[1].end)
C31_Witness ==
    /\ last_op.name = "extend_selection"
    /\ Len(script) = 2
    /\ script[1] # script[2]
    /\ Position_le(script[2], script[1])
    /\ grid.selection # None
    /\ grid.selection[1].start = script[2]
    /\ grid.selection[1].end = script[1]

(* C32: whenever the grid has a selection, both its endpoints lie inside the grid  *)
(* (col < cols and row < rows), also after a resize that shrinks the grid.         *)
C32_SelectionInsideGrid ==
    grid.selection # None =>
        InsideGrid(grid.selection[1].start) /\ InsideGrid(grid.selection[1].end)

(* C33: on a grid whose cells are all empty, select_all followed by                *)
(* get_selected_text gives no character: None or the empty string.                 *)
C33_SelectAllEmptyGrid ==
    (last_op.name = "select_all" /\ AllCellsEmpty) =>
        get_selected_text(grid) \in {None, Some(<<>>)}

(* C37: after start_selection(a) and then extend_selection calls, the last being   *)
(* extend_selection(p), the selection is Selection::new(clamp(a), clamp(p)).       *)
C37_AnchorKept ==
    Len(script) = 2 => grid.selection = Some(Selection_new(script[1], script[2]))


(* ---------------- PTY session: the last event ---------------- *)
(* C34: ProcessExit is the last event of a session: once ProcessExit has been put  *)
(* on the event channel, or the session has ended through Shutdown, no Data,       *)
(* ParsedActions or Error event follows.                                           *)
C34_ProcessExitIsLast ==
    [][(pty.session = "ended" /\ pty.ended_by \in {"exit", "Shutdown"})
          => pty'.events = pty.events]_vars


(* ---------------- resize: termination ---------------- *)
(* C35: resize terminates for every (new_cols, new_rows) and every grid content,   *)
(* new_cols = 0 with a non-empty cell included: a resize that has entered          *)
(* rewrap_lines returns.                                                           *)
C35_ResizeTerminates == (script # <<>>) ~> (script = <<>>)


(* ---------------- print_char and the viewport ---------------- *)
(* C36: print_char writes only to the live screen: the one cell it changes is at   *)
(* deque row total_rows - rows + cursor.row and column cursor.col, whatever        *)
(* viewport_offset is; no other stored cell, and so no history row, changes.       *)
(* (Stated for the calls that do not scroll the grid by themselves.)               *)
C36_PrintWritesLiveScreen ==
    [][(last_op'.name = "print_char" /\ ~last_op'.auto_scroll /\ ~panicked')
          => LET total_rows == Len(grid.scrollback)
                 live_row == total_rows - grid.rows + grid.cursor_pos[2]
             IN /\ Len(grid'.scrollback) = total_rows
                /\ \A i \in 1..total_rows : \A j \in 1..Len(grid.scrollback[i]) :
                      (i # live_row + 1 \/ j # grid.cursor_pos[1] + 1)
                          => grid'.scrollback[i][j] = grid.scrollback[i][j]]_vars


(* ---------------- glyph atlas: regions and the texture ---------------- *)
InsideTexture(a, region) ==
    region.x + region.width <= a.width /\ region.y + region.height <= a.height

(* C38: every region a successful allocation returns lies inside the texture       *)
(* (x + width <= atlas width, y + height <= atlas height), and a request wider or  *)
(* taller than the atlas fails; stated of the regions in the cache and of the      *)
(* next allocate_glyph call, whatever the atlas holds.                             *)
C38_RegionsInsideTexture ==
    /\ \A i \in 1..Len(atlas.glyph_cache) : InsideTexture(atlas, atlas.glyph_cache[i].region)
    /\ \A size \in AllocSizes :
          LET res == allocate_glyph(atlas, size[1], size[2])
          IN /\ res.region # None => InsideTexture(atlas, res.region[1])
             /\ (size[1] > atlas.width \/ size[2] > atlas.height) => res.region = None


(* ---------------- action registry: the plugin index ---------------- *)
OwnedBy(r, p) == {id \in DOMAIN r.actions : r.actions[id].plugin_id = p}
Owners(r) == {r.actions[id].plugin_id : id \in DOMAIN r.actions}

(* C39: the plugin index agrees with the action map: plugin_actions[p] lists       *)
(* exactly the ids of the registered actions owned by p, without duplicates, no    *)
(* key maps to an empty list, and plugin_count is the number of distinct owners.   *)
C39_IndexAgrees ==
    /\ \A p \in DOMAIN registry.plugin_actions :
          LET ids == registry.plugin_actions[p]
          IN /\ ids # <<>>
             /\ \A i, j \in 1..Len(ids) : ids[i] = ids[j] => i = j
             /\ Elems(ids) = OwnedBy(registry, p)
    /\ Owners(registry) = DOMAIN registry.plugin_actions
    /\ plugin_count(registry) = Cardinality(Owners(registry))
C39_Witness ==
    /\ registry.call.op = "unregister_plugin_actions"
    /\ registry.call.plugin_id = "y"
    /\ registry.call.count_before = 3
    /\ DOMAIN registry.plugin_actions = {"x"}
    /\ Len(registry.plugin_actions["x"]) = 2
    /\ action_count(registry) = 2

(* C40: for every cursor position and every u16 argument n, move_cursor_down(n)   *)
(* leaves the row at min(row + n, rows - 1) and move_cursor_right(n) leaves the     *)
(* column at min(col + n, cols - 1), the sum never leaving 16 bits (no wrap-around  *)
(* and no arithmetic panic), also when reached through handle_csi_action.           *)
C40_CursorMovesClampWithoutOverflow ==
    /\ \A n \in U16Args :
          /\ ~move_cursor_down_overflows(grid, n)
          /\ move_cursor_down(grid, n).cursor_pos[2]
                = Min(grid.cursor_pos[2] + n, saturating_sub(grid.rows, 1))
          /\ ~move_cursor_right_overflows(grid, n)
          /\ move_cursor_right(grid, n).cursor_pos[1]
                = Min(grid.cursor_pos[1] + n, saturating_sub(grid.cols, 1))
    /\ \A action \in CsiActions :
          /\ ~handle_csi_action_overflows(grid, action)
          /\ action.tag \in {"CursorDown", "CursorNextLine"} =>
                handle_csi_action(grid, action).cursor_pos[2]
                  = Min(grid.cursor_pos[2] + action.n, saturating_sub(grid.rows, 1))
          /\ action.tag = "CursorForward" =>
                handle_csi_action(grid, action).cursor_pos[1]
                  = Min(grid.cursor_pos[1] + action.n, saturating_sub(grid.cols, 1))

====
